---- MODULE Spec2Model ----
(***************************************************************************)
(* Intcode machine, its QueuePort, and the day-23 CentralSwitch with its   *)
(* BridgeAdapters and NAT worker (mysolution/machine.py and                *)
(* mysolution/day23_category_six/solve.py), as one state machine.          *)
(*                                                                         *)
(* Groups of variables, one per subsystem; each specification runs one     *)
(* subsystem and leaves the other groups unchanged:                        *)
(*   SpecNet / SpecNetFair      the switch, two bridges and the NAT worker *)
(*   SpecSeed                   the switch while its bridges are built     *)
(*   SpecClean                  main() of day 23 with the machines' run    *)
(*                              loops and the clean-up loop                *)
(*   SpecQueue                  one QueuePort with producer and consumer   *)
(*                              threads                                    *)
(*   SpecMachine / ...Fair      one Machine on two QueuePorts + a driver   *)
(*   SpecPainter                the day-11 robot thread and its chip       *)
(***************************************************************************)
EXTENDS Integers, Sequences, FiniteSets, TLC

(***************************************************************************)
(* Generic helpers                                                         *)
(***************************************************************************)
Last(s) == s[Len(s)]

IsPrefix(s, t) == Len(s) <= Len(t) /\ SubSeq(t, 1, Len(s)) = s

Range(s) == {s[i] : i \in 1..Len(s)}

(***************************************************************************)
(* ======================= PART I: the switch ===========================  *)
(***************************************************************************)

\* CentralSwitch.nat_addr
NatAddr == 255

\* Number of words the machine threads may pass to write_int, all together
\* (SpecNet), and the smaller budget of the fair specification (SpecNetFair).
MaxWrites == 6

MaxWritesFair == 4

\* Addresses for which main() asks get_bridge (range(50) in the source;
\* two machines here).
Addrs == {0, 1}

\* bridges.values(): dict order is insertion order, i.e. ascending address.
BridgeOrder == <<0, 1>>

\* Words a machine thread may pass to write_int: each is a valid
\* destination (bridge 0 or the NAT) and a possible x or y.
NetWords == {0, NatAddr}

VARIABLES
    in_queue,           \* BridgeAdapter.in_queue, per address
    out_buffer,         \* BridgeAdapter.out_buffer, per address
    in_starving,        \* BridgeAdapter.in_starving, per address
    nat_received_msgs,  \* CentralSwitch.nat_received_msgs, entries <<x, y>>
    nat_sent_msgs,      \* CentralSwitch.nat_sent_msgs, entries <<x, y>>
    nat_first_received, \* CentralSwitch.nat_first_received
    msg_log,            \* what log_msg has emitted: <<send, recv, x, y>>
    bpc,                \* where each machine thread is inside its bridge call
    last_read,          \* <<v>>: value returned by the last completed read_int
    nat_pc,             \* where the NAT worker is in nat_run_until_send_repeated
    nat_i,              \* index into bridges.values() in the NAT's wait loop
    wlog,               \* history: every word passed to write_int, per address
    enq,                \* history: every word ever appended to in_queue
    wbudget,            \* the write budget of this run (MaxWrites or MaxWritesFair)
    dlv,                \* history per bridge: <<sender, x, y>> of every delivery, in order
    rlog                \* history per bridge: every word a read_int returned from the queue

netvars == <<in_queue, out_buffer, in_starving, nat_received_msgs,
             nat_sent_msgs, nat_first_received, msg_log, bpc, last_read,
             nat_pc, nat_i, wlog, enq, wbudget, dlv, rlog>>

(***************************************************************************)
(* Variables of the QueuePort part (Part II)                               *)
(***************************************************************************)
VARIABLES
    queue,      \* QueuePort.queue, per port
    starving,   \* QueuePort.starving, per port
    mutex,      \* QueuePort.mutex, per port: the thread holding it, or NoThread
    retries,    \* QueuePort.retries, per port: <<>> for None, <<r>> for r
    initial_values, \* the initial_values the port was constructed with
    live,       \* the threads that exist in this run
    tpc,        \* per thread: where it is inside its port call
    call,       \* per thread: the port call in progress
    iter,       \* per thread: iterations of the read loop already completed
    got,        \* per thread: words popped so far by read_ints
    outcome,    \* per thread: how its last port call ended
    nextword,   \* the next fresh word a producer passes to a write call
    written,    \* history: words passed to write calls, in call order
    qhist,      \* history per port: every word ever in the queue, in order
    pophist,    \* history per port: <<thread, word>> for every popleft
    consumed,   \* history per thread: words its read calls returned
    batches,    \* history: the value lists passed to write_ints
    returns     \* history: <<thread, list>> for every read_ints result

portvars == <<queue, starving, mutex, retries, initial_values>>
thrvars == <<live, tpc, call, iter, got, outcome>>
histvars == <<nextword, written, qhist, pophist, consumed, batches, returns>>
queuevars == <<portvars, thrvars, histvars>>

(***************************************************************************)
(* Variables of the Machine part (Part III)                                *)
(***************************************************************************)
VARIABLES
    mach,       \* the Machine's fields: memory, pc, relative_base, tapes
    image,      \* the instruction sequence the Machine was built from
    mst,        \* where the machine thread is in run_until_terminate
    sigterm,    \* Machine.sigterm
    dpc,        \* where the driver is in close(): sigterm.set(); join()
    early_sig,  \* history: sigterm was set when run_until_terminate was called
    late_started, \* history: execute_next calls begun with sigterm already set
    woke_cancelled, \* history: a waiting read_int of the machine was given up on its sentinel
    runs    \* history: how each run_until_terminate call ended, what its caller got, the machine then

machvars == <<mach, image, mst, sigterm, dpc, early_sig, late_started,
              woke_cancelled, runs>>

(***************************************************************************)
(* Variables of the parts with several machines (Part V)                   *)
(***************************************************************************)
VARIABLES
    heap,   \* the list and dict objects: 0 is the instruction list, i the memory of drone machine i
    fleet,  \* the machines built from the instruction list, each with its own ports
    amp,    \* the amplifiers: Program fields, QueueInterface fields, thread state
    rq,     \* the ring's SimpleQueues: rq[i] is amplifier i's in_queue
    drv     \* where test_sequential_looped_wiring is, and what it returned

fleetvars == <<heap, fleet>>
ampvars == <<amp, rq, drv>>

(***************************************************************************)
(* Variables of the switch's construction phase (main, lines 30-40)        *)
(***************************************************************************)
VARIABLES
    bridges,    \* CentralSwitch.bridges: the addresses that have a BridgeAdapter
    asked       \* history per address: how many get_bridge calls named it

seedvars == <<bridges, asked>>

(***************************************************************************)
(* Variables of the painter robot (day 11)                                 *)
(***************************************************************************)
VARIABLES
    robot   \* PainterRobot: its thread's position, sigterm, pose, canvas; deploy_robot's position

robotvars == <<robot>>

(***************************************************************************)
(* Variables of the day-23 main(): the machines' run loops and the driver  *)
(***************************************************************************)
VARIABLES
    environ,    \* environments, per address: the machine thread's place in run_until_terminate, its sigterm
    main        \* where main() is, its loop index, and the part-1 answer it read

cleanvars == <<environ, main>>
restvars == <<fleetvars, ampvars, seedvars, robotvars, cleanvars>>

vars == <<netvars, queuevars, machvars, restvars>>

(***************************************************************************)
(* The states of the parts a specification does not run.                   *)
(***************************************************************************)
Ports == {"in", "out"}
Producers == {"p1", "p2"}
Consumers == {"c1", "c2"}
Clients == Producers \cup Consumers
MachineThread == "m"
Threads == Clients \cup {MachineThread}
NoThread == "none"

NoCall == [op |-> "none", port |-> "in", n |-> 0, vals |-> <<>>, sentinel |-> FALSE]

\* Machine.__post_init__: memory[addr] = instr for addr, instr in
\* enumerate(instructions); pc, relative_base and the tapes start empty.
NewMachine(instructions) ==
    [memory |-> [addr \in 0..(Len(instructions) - 1) |-> instructions[addr + 1]],
     pc |-> 0,
     relative_base |-> 0,
     input_tape |-> <<>>,
     output_tape |-> <<>>]

ThreadsStart ==
    /\ tpc = [t \in Threads |-> "idle"]
    /\ call = [t \in Threads |-> NoCall]
    /\ iter = [t \in Threads |-> 0]
    /\ got = [t \in Threads |-> <<>>]
    /\ outcome = [t \in Threads |-> "none"]
    /\ nextword = 1
    /\ written = <<>>
    /\ pophist = [p \in Ports |-> <<>>]
    /\ consumed = [t \in Threads |-> <<>>]
    /\ batches = {}
    /\ returns = {}
    /\ starving = [p \in Ports |-> FALSE]
    /\ mutex = [p \in Ports |-> NoThread]

\* QueuePort.__post_init__: queue.extend(initial_values)
PortsStart(init) ==
    /\ initial_values = init
    /\ queue = init
    /\ qhist = init

QueueOff ==
    /\ ThreadsStart
    /\ PortsStart([p \in Ports |-> <<>>])
    /\ retries = [p \in Ports |-> <<>>]
    /\ live = {}

MachineOff ==
    /\ image = <<99>>
    /\ mach = NewMachine(<<99>>)
    /\ mst = "ready"
    /\ sigterm = FALSE
    /\ dpc = "open"
    /\ early_sig = FALSE
    /\ late_started = 0
    /\ woke_cancelled = FALSE
    /\ runs = <<>>

\* No machine has been built from a shared list.
FleetOff ==
    /\ heap = <<>>
    /\ fleet = <<>>

\* There is no amplifier ring.
RingOff ==
    /\ amp = <<>>
    /\ rq = <<>>
    /\ drv = [pc |-> "off", k |-> 0, result |-> <<>>]

\* main has asked for every machine's bridge once (lines 32-33).
BridgesBuilt ==
    /\ bridges = {0, 1}
    /\ asked = [a \in {0, 1, 255} |-> IF a = 255 THEN 0 ELSE 1]

\* There is no painter robot.
RobotOff ==
    robot = [pc |-> "off", main |-> "off", sigterm |-> FALSE,
             robot_pos |-> <<0, 0>>, robot_heading |-> <<0, 1>>,
             canvas |-> <<>>, reply |-> <<>>, taken |-> <<>>,
             handled |-> <<>>, late |-> 0]

\* The machines' run loops and main() are not part of the run.
MainOff ==
    /\ environ = <<>>
    /\ main = [pc |-> "off", k |-> 0, p1_answer |-> <<>>]

RestOff == FleetOff /\ RingOff /\ BridgesBuilt /\ RobotOff /\ MainOff

\* Words written so far by all machine threads.
TotalWrites == Len(wlog[0]) + Len(wlog[1])

\* CentralSwitch() followed by get_bridge(addr) for every address:
\* BridgeAdapter.__post_init__ seeds in_queue with the address.
NetStart ==
    /\ in_queue = [a \in Addrs |-> <<a>>]
    /\ out_buffer = [a \in Addrs |-> <<>>]
    /\ in_starving = [a \in Addrs |-> FALSE]
    /\ nat_received_msgs = <<>>
    /\ nat_sent_msgs = <<>>
    /\ nat_first_received = FALSE
    /\ msg_log = <<>>
    /\ bpc = [a \in Addrs |-> "idle"]
    /\ last_read = [a \in Addrs |-> <<>>]
    /\ nat_pc = "check"
    /\ nat_i = 1
    /\ wlog = [a \in Addrs |-> <<>>]
    /\ enq = [a \in Addrs |-> <<a>>]
    /\ dlv = [a \in Addrs |-> <<>>]
    /\ rlog = [a \in Addrs |-> <<>>]

NetInit == NetStart /\ wbudget = MaxWrites /\ QueueOff /\ MachineOff /\ RestOff

NetInitFair == NetStart /\ wbudget = MaxWritesFair /\ QueueOff /\ MachineOff /\ RestOff

\* CentralSwitch.network_idle: all(in_starving.is_set()) under self.mutex.
\* The mutex makes the evaluation atomic with respect to the clear() in
\* deliver_to_machine, the only operation that can turn a flag off, so a
\* True result is a true snapshot and the evaluation is one step.
network_idle == \A a \in Addrs : in_starving[a]

\* Mutant of BridgeHead: the newest word (pop) instead of the oldest.
BridgeHead_Newest(q) == q[Len(q)]

\* What a non-empty read returns: in_queue.popleft().
BridgeHead(q) == Head(q)

\* Mutant of DeliveredWords: the whole framed buffer, destination included,
\* is appended to the receiver's queue.
DeliveredWords_WholeBuffer(buffer) == buffer

\* Mutant of DeliveredWords: in_queue.extend([y, x]).
DeliveredWords_YFirst(buffer) == <<buffer[3], buffer[2]>>

\* The words deliver_to_machine appends to the receiver's in_queue for a
\* framed buffer (recv_addr, x, y): in_queue.extend([x, y]).
DeliveredWords(buffer) == <<buffer[2], buffer[3]>>

\* Mutant of BridgeRead: on an empty FIFO the read honours the sentinel the
\* way QueuePort.read_int does and fails when it is true.
BridgeRead_RaisesOnSentinel(a) ==
    /\ bpc[a] = "idle"
    /\ \E sentinel \in BOOLEAN :
        IF in_queue[a] # <<>>
        THEN /\ last_read' = [last_read EXCEPT ![a] = <<Head(in_queue[a])>>]
             /\ rlog' = [rlog EXCEPT ![a] = Append(@, Head(in_queue[a]))]
             /\ in_queue' = [in_queue EXCEPT ![a] = Tail(@)]
             /\ UNCHANGED bpc
        ELSE /\ bpc' = [bpc EXCEPT ![a] = IF sentinel THEN "error" ELSE "starve"]
             /\ UNCHANGED <<in_queue, last_read, rlog>>
    /\ UNCHANGED <<out_buffer, in_starving, nat_received_msgs, nat_sent_msgs,
                   nat_first_received, msg_log, nat_pc, nat_i, wlog, enq, wbudget,
                   dlv>>

(***************************************************************************)
(* BridgeAdapter.read_int, step 1: `if self.in_queue: return popleft()`.   *)
(* The machine thread is the only thread that removes words from its own   *)
(* bridge, so the test and the popleft are one step.  The sentinel is an   *)
(* argument the method never looks at.                                     *)
(***************************************************************************)
BridgeRead(a) ==
    /\ bpc[a] = "idle"
    /\ \E sentinel \in BOOLEAN :
        IF in_queue[a] # <<>>
        THEN /\ last_read' = [last_read EXCEPT ![a] = <<BridgeHead(in_queue[a])>>]
             /\ rlog' = [rlog EXCEPT ![a] = Append(@, BridgeHead(in_queue[a]))]
             /\ in_queue' = [in_queue EXCEPT ![a] = Tail(@)]
             /\ UNCHANGED bpc
        ELSE /\ bpc' = [bpc EXCEPT ![a] = "starve"]
             /\ UNCHANGED <<in_queue, last_read, rlog>>
    /\ UNCHANGED <<out_buffer, in_starving, nat_received_msgs, nat_sent_msgs,
                   nat_first_received, msg_log, nat_pc, nat_i, wlog, enq, wbudget,
                   dlv>>

\* Mutant of BridgeStarve: the read sleeps until a word has been delivered.
BridgeStarve_UntilDelivery(a) ==
    /\ bpc[a] = "starve"
    /\ in_queue[a] # <<>>
    /\ in_starving' = [in_starving EXCEPT ![a] = TRUE]
    /\ last_read' = [last_read EXCEPT ![a] = <<-1>>]
    /\ bpc' = [bpc EXCEPT ![a] = "idle"]
    /\ UNCHANGED <<in_queue, out_buffer, nat_received_msgs, nat_sent_msgs,
                   nat_first_received, msg_log, nat_pc, nat_i, wlog, enq, wbudget,
                   dlv, rlog>>

\* BridgeAdapter.read_int, step 2: in_starving.set(); sleep; return -1.
BridgeStarve(a) ==
    /\ bpc[a] = "starve"
    /\ in_starving' = [in_starving EXCEPT ![a] = TRUE]
    /\ last_read' = [last_read EXCEPT ![a] = <<-1>>]
    /\ bpc' = [bpc EXCEPT ![a] = "idle"]
    /\ UNCHANGED <<in_queue, out_buffer, nat_received_msgs, nat_sent_msgs,
                   nat_first_received, msg_log, nat_pc, nat_i, wlog, enq, wbudget,
                   dlv, rlog>>

\* Mutant of InboxAppend: nat_received_msgs.appendleft(Vec(x, y)).
InboxAppend_Left(inbox, msg) == <<msg>> \o inbox

\* dispatch_buffer, line 105: self.nat_received_msgs.append(Vec(x, y))
InboxAppend(inbox, msg) == Append(inbox, msg)

(***************************************************************************)
(* BridgeAdapter.write_int up to and including the in_queue.extend of      *)
(* deliver_to_machine.  out_buffer is private to the machine thread.  On   *)
(* the third word dispatch_buffer logs the message and either appends to   *)
(* the NAT inbox or extends the receiver's queue; the event is set         *)
(* (BridgeSignal) or the receiver's flag is cleared (BridgeClear) in a     *)
(* later step, the buffer is reset after that.                             *)
(***************************************************************************)
BridgeWrite(a) ==
    /\ bpc[a] = "idle"
    /\ TotalWrites < wbudget
    /\ \E value \in NetWords :
        LET buffer == Append(out_buffer[a], value) IN
        /\ wlog' = [wlog EXCEPT ![a] = Append(@, value)]
        /\ IF Len(buffer) # 3
           THEN /\ out_buffer' = [out_buffer EXCEPT ![a] = buffer]
                /\ UNCHANGED <<in_queue, nat_received_msgs, nat_first_received,
                               msg_log, bpc, enq, dlv>>
           ELSE /\ msg_log' = Append(msg_log, <<a, buffer[1], buffer[2], buffer[3]>>)
                /\ IF buffer[1] = NatAddr
                   THEN /\ nat_received_msgs' =
                              InboxAppend(nat_received_msgs, <<buffer[2], buffer[3]>>)
                        /\ out_buffer' = [out_buffer EXCEPT ![a] = buffer]
                        /\ bpc' = [bpc EXCEPT ![a] = "signal"]
                        /\ UNCHANGED <<in_queue, enq, dlv, nat_first_received>>
                   ELSE IF buffer[1] \in Addrs
                   THEN /\ in_queue' = [in_queue EXCEPT
                                          ![buffer[1]] = @ \o DeliveredWords(buffer)]
                        /\ enq' = [enq EXCEPT
                                          ![buffer[1]] = @ \o DeliveredWords(buffer)]
                        /\ dlv' = [dlv EXCEPT
                                          ![buffer[1]] = Append(@, <<a, buffer[2], buffer[3]>>)]
                        /\ out_buffer' = [out_buffer EXCEPT ![a] = buffer]
                        /\ bpc' = [bpc EXCEPT ![a] = "clear"]
                        /\ UNCHANGED <<nat_received_msgs, nat_first_received>>
                   ELSE \* self.bridges[addr] raises KeyError: the thread dies
                        /\ out_buffer' = [out_buffer EXCEPT ![a] = buffer]
                        /\ bpc' = [bpc EXCEPT ![a] = "error"]
                        /\ UNCHANGED <<in_queue, enq, dlv, nat_received_msgs,
                                       nat_first_received>>
    /\ UNCHANGED <<in_starving, nat_sent_msgs, last_read, nat_pc, nat_i, wbudget,
                   rlog>>

\* dispatch_buffer, line 106: self.nat_first_received.set(), then back in
\* write_int `self.out_buffer = []`.
BridgeSignal(a) ==
    /\ bpc[a] = "signal"
    /\ nat_first_received' = TRUE
    /\ out_buffer' = [out_buffer EXCEPT ![a] = <<>>]
    /\ bpc' = [bpc EXCEPT ![a] = "idle"]
    /\ UNCHANGED <<in_queue, in_starving, nat_received_msgs, nat_sent_msgs,
                   msg_log, last_read, nat_pc, nat_i, wlog, enq, wbudget,
                   dlv, rlog>>

\* Mutant of NatHoldsMutex: the wait loop of lines 127-128 runs inside the
\* with-block.
NatHoldsMutex_WhileWaiting(pc) == pc = "wait"

\* Whether the NAT worker holds CentralSwitch.mutex when it is at `pc`:
\* network_idle takes the mutex around its all(...) only, and
\* deliver_to_machine around the clear() only, so between two steps never.
NatHoldsMutex(pc) == FALSE

\* deliver_to_machine, `with self.mutex: adapter.in_starving.clear()`, then
\* back in write_int `self.out_buffer = []`.
BridgeClear(a) ==
    /\ bpc[a] = "clear"
    /\ ~NatHoldsMutex(nat_pc)
    /\ in_starving' = [in_starving EXCEPT ![out_buffer[a][1]] = FALSE]
    /\ out_buffer' = [out_buffer EXCEPT ![a] = <<>>]
    /\ bpc' = [bpc EXCEPT ![a] = "idle"]
    /\ UNCHANGED <<in_queue, nat_received_msgs, nat_sent_msgs,
                   nat_first_received, msg_log, last_read, nat_pc, nat_i,
                   wlog, enq, wbudget,
                   dlv, rlog>>

(***************************************************************************)
(* CentralSwitch.nat_run_until_send_repeated                               *)
(***************************************************************************)
\* Mutant of NatCheck: the `not` of line 126 is dropped, so an idle network
\* sends the worker into the wait loop.
NatCheck_Inverted ==
    /\ nat_pc = "check"
    /\ IF ~network_idle
       THEN nat_pc' = "act" /\ UNCHANGED nat_i
       ELSE nat_pc' = "wait" /\ nat_i' = 1
    /\ UNCHANGED <<in_queue, out_buffer, in_starving, nat_received_msgs,
                   nat_sent_msgs, nat_first_received, msg_log, bpc, last_read,
                   wlog, enq, wbudget,
                   dlv, rlog>>

\* `if not self.network_idle()`: idle goes on to line 130, otherwise the
\* worker enters the wait loop over bridges.values().
NatCheck ==
    /\ nat_pc = "check"
    /\ IF network_idle
       THEN nat_pc' = "act" /\ UNCHANGED nat_i
       ELSE nat_pc' = "wait" /\ nat_i' = 1
    /\ UNCHANGED <<in_queue, out_buffer, in_starving, nat_received_msgs,
                   nat_sent_msgs, nat_first_received, msg_log, bpc, last_read,
                   wlog, enq, wbudget,
                   dlv, rlog>>

\* `adapter.in_starving.wait()` for the nat_i-th adapter: returns once the
\* flag is set; after the last adapter, `continue`.
NatWait ==
    /\ nat_pc = "wait"
    /\ in_starving[BridgeOrder[nat_i]]
    /\ IF nat_i < Len(BridgeOrder)
       THEN nat_i' = nat_i + 1 /\ UNCHANGED nat_pc
       ELSE nat_i' = 1 /\ nat_pc' = "check"
    /\ UNCHANGED <<in_queue, out_buffer, in_starving, nat_received_msgs,
                   nat_sent_msgs, nat_first_received, msg_log, bpc, last_read,
                   wlog, enq, wbudget,
                   dlv, rlog>>

\* Mutant of IsRepeat: the x components are compared instead of the y's.
IsRepeat_CompareX(sent, recent) == sent # <<>> /\ Last(sent)[1] = recent[1]

\* The repeat test of line 131 on the message read at line 130.
IsRepeat(sent, recent) == sent # <<>> /\ Last(sent)[2] = recent[2]

\* Mutant of RecentMsg: the oldest inbox entry, nat_received_msgs[0].
RecentMsg_Oldest(inbox) == Head(inbox)

\* recent_msg = self.nat_received_msgs[-1]
RecentMsg(inbox) == Last(inbox)

\* Mutant of NatAct: an empty inbox is not an error, the worker goes round
\* its loop again.
NatAct_RetriesWhenEmpty ==
    /\ nat_pc = "act"
    /\ IF nat_received_msgs = <<>>
       THEN nat_pc' = "check" /\ UNCHANGED nat_sent_msgs
       ELSE IF IsRepeat(nat_sent_msgs, RecentMsg(nat_received_msgs))
       THEN nat_pc' = "returned" /\ UNCHANGED nat_sent_msgs
       ELSE /\ nat_sent_msgs' = Append(nat_sent_msgs, RecentMsg(nat_received_msgs))
            /\ nat_pc' = "deliver"
    /\ UNCHANGED <<in_queue, out_buffer, in_starving, nat_received_msgs,
                   nat_first_received, msg_log, bpc, last_read, nat_i,
                   wlog, enq, wbudget, dlv, rlog>>

\* Lines 130-133: recent_msg = nat_received_msgs[-1] (IndexError when the
\* inbox is empty), the repeat test, and nat_sent_msgs.append(recent_msg).
NatAct ==
    /\ nat_pc = "act"
    /\ IF nat_received_msgs = <<>>
       THEN nat_pc' = "error" /\ UNCHANGED nat_sent_msgs
       ELSE IF IsRepeat(nat_sent_msgs, RecentMsg(nat_received_msgs))
       THEN nat_pc' = "returned" /\ UNCHANGED nat_sent_msgs
       ELSE /\ nat_sent_msgs' = Append(nat_sent_msgs, RecentMsg(nat_received_msgs))
            /\ nat_pc' = "deliver"
    /\ UNCHANGED <<in_queue, out_buffer, in_starving, nat_received_msgs,
                   nat_first_received, msg_log, bpc, last_read, nat_i,
                   wlog, enq, wbudget,
                   dlv, rlog>>

\* deliver_to_machine(0, x, y), first half: in_queue.extend([x, y]).
NatDeliver ==
    /\ nat_pc = "deliver"
    /\ in_queue' = [in_queue EXCEPT ![0] = @ \o Last(nat_sent_msgs)]
    /\ enq' = [enq EXCEPT ![0] = @ \o Last(nat_sent_msgs)]
    /\ dlv' = [dlv EXCEPT ![0] = Append(@, <<NatAddr>> \o Last(nat_sent_msgs))]
    /\ nat_pc' = "clear"
    /\ UNCHANGED <<out_buffer, in_starving, nat_received_msgs, nat_sent_msgs,
                   nat_first_received, msg_log, bpc, last_read, nat_i, wlog,
                   wbudget, rlog>>

\* deliver_to_machine(0, x, y), second half (clear under the mutex), and
\* the log_msg of line 135.
NatClear ==
    /\ nat_pc = "clear"
    /\ in_starving' = [in_starving EXCEPT ![0] = FALSE]
    /\ msg_log' = Append(msg_log,
                         <<NatAddr, 0, Last(nat_sent_msgs)[1], Last(nat_sent_msgs)[2]>>)
    /\ nat_pc' = "check"
    /\ UNCHANGED <<in_queue, out_buffer, nat_received_msgs, nat_sent_msgs,
                   nat_first_received, bpc, last_read, nat_i, wlog, enq, wbudget,
                   dlv, rlog>>

NatStep == NatCheck \/ NatWait \/ NatAct \/ NatDeliver \/ NatClear

NetStep ==
    \/ \E a \in Addrs : BridgeRead(a)
    \/ \E a \in Addrs : BridgeStarve(a)
    \/ \E a \in Addrs : BridgeWrite(a)
    \/ \E a \in Addrs : BridgeClear(a)
    \/ \E a \in Addrs : BridgeSignal(a)
    \/ NatCheck
    \/ NatWait
    \/ NatAct
    \/ NatDeliver
    \/ NatClear

NetNext == NetStep /\ UNCHANGED <<queuevars, machvars, restvars>>

SpecNet == NetInit /\ [][NetNext]_vars

(***************************************************************************)
(* Fairness for the switch: the NAT worker is a running thread, and every  *)
(* machine thread keeps polling its bridge (the day-23 program reads in a  *)
(* loop) and finishes a delivery it has begun.                             *)
(***************************************************************************)
SpecNetFair ==
    /\ NetInitFair /\ [][NetNext]_vars
    /\ WF_vars(NatStep /\ UNCHANGED <<queuevars, machvars, restvars>>)
    /\ \A a \in Addrs :
         WF_vars((BridgeRead(a) \/ BridgeStarve(a) \/ BridgeClear(a) \/ BridgeSignal(a))
                    /\ UNCHANGED <<queuevars, machvars, restvars>>)

(***************************************************************************)
(* Claims about the switch                                                 *)
(***************************************************************************)
AllStarving == \A a \in Addrs : in_starving[a]
AllFifosEmpty == \A a \in Addrs : in_queue[a] = <<>>

\* C1: whenever network_idle() reports idle and the NAT worker goes on to
\* act on it, at that instant every bridge has its starving flag set and
\* an empty input FIFO.
C1_IdleMeansStarvingAndEmpty ==
    [][(nat_pc = "check" /\ nat_pc' = "act") => (AllStarving /\ AllFifosEmpty)]_vars

\* C6: the NAT worker returns exactly when, having observed idle, the y of
\* the newest inbox packet equals the y of the packet it last delivered to
\* address 0; the returning step appends nothing to nat_sent_msgs and
\* pushes nothing to any bridge, nat_sent_msgs[-1].y is the repeated y, and
\* once returned every entry of nat_sent_msgs has been delivered once.
NatLogged == SelectSeq(msg_log, LAMBDA m : m[1] = NatAddr)

C6_ReturnStep ==
    (nat_pc = "act" /\ nat_pc' # "act") =>
        /\ (nat_pc' = "returned") <=>
               /\ nat_received_msgs # <<>>
               /\ nat_sent_msgs # <<>>
               /\ Last(nat_sent_msgs)[2] = Last(nat_received_msgs)[2]
        /\ (nat_pc' = "returned") =>
               /\ nat_sent_msgs' = nat_sent_msgs
               /\ in_queue' = in_queue
               /\ msg_log' = msg_log

C6_AfterReturn ==
    (nat_pc = "returned") =>
        /\ nat_pc' = "returned"
        /\ nat_sent_msgs' = nat_sent_msgs
        /\ nat_sent_msgs # <<>>
        /\ Len(NatLogged) = Len(nat_sent_msgs)
        /\ \A i \in 1..Len(NatLogged) :
              NatLogged[i] = <<NatAddr, 0, nat_sent_msgs[i][1], nat_sent_msgs[i][2]>>

C6_NatStopsBeforeRepeatedSend == [][C6_ReturnStep /\ C6_AfterReturn]_vars

\* C6 witness: the worker has returned after delivering two packets with
\* different y and then seeing the second y again.
C6_Witness == nat_pc = "returned" /\ Len(nat_sent_msgs) = 2

\* C8: read_int never fails and always returns: on a non-empty FIFO it
\* removes and returns the head; on an empty one it goes on to set the
\* starving flag and return -1 with the FIFO untouched, for either value of
\* the sentinel.
C8_ReadStep ==
    \A a \in Addrs :
        /\ BridgeRead(a) =>
              IF in_queue[a] # <<>>
              THEN /\ in_queue'[a] = Tail(in_queue[a])
                   /\ last_read'[a] = <<Head(in_queue[a])>>
                   /\ bpc'[a] = "idle"
                   /\ in_starving' = in_starving
              ELSE /\ in_queue' = in_queue
                   /\ bpc'[a] = "starve"
        /\ BridgeStarve(a) =>
              /\ in_starving'[a]
              /\ in_queue' = in_queue
              /\ last_read'[a] = <<-1>>
              /\ bpc'[a] = "idle"

C8_ReadAlwaysReturns ==
    \A a \in Addrs : bpc[a] = "starve" => ENABLED BridgeStarve(a)

C8_BridgeReadNeverFails == [][C8_ReadStep]_vars /\ []C8_ReadAlwaysReturns

\* C8 witness: one machine's last read returned -1 and set its flag, the
\* other's returned a real word.
C8_Witness ==
    /\ last_read[0] = <<-1>> /\ in_starving[0] /\ bpc[0] = "idle"
    /\ last_read[1] = <<1>> /\ bpc[1] = "idle"

\* C9: the k-th message a machine dispatches is its writes 3k-2, 3k-1, 3k
\* as (dest, x, y); between writes the framing buffer holds the words after
\* the last complete triple (fewer than three); only x and y reach a FIFO
\* or the NAT inbox.
SentBy(a) == SelectSeq(msg_log, LAMBDA m : m[1] = a)
SentTo(b) == SelectSeq(msg_log, LAMBDA m : m[2] = b)

C9_Framing ==
    \A a \in Addrs :
        LET n == Len(wlog[a]) \div 3 IN
        /\ Len(SentBy(a)) = n
        /\ \A k \in 1..n :
              SentBy(a)[k] = <<a, wlog[a][3*k - 2], wlog[a][3*k - 1], wlog[a][3*k]>>
        /\ bpc[a] = "idle" =>
              /\ Len(out_buffer[a]) < 3
              /\ out_buffer[a] = SubSeq(wlog[a], 3*n + 1, Len(wlog[a]))

C9_OnlyXY ==
    /\ Len(nat_received_msgs) = Len(SentTo(NatAddr))
    /\ \A i \in 1..Len(nat_received_msgs) :
          nat_received_msgs[i] = <<SentTo(NatAddr)[i][3], SentTo(NatAddr)[i][4]>>
    /\ \A b \in Addrs :
          LET pending == IF b = 0 /\ nat_pc = "clear" THEN 1 ELSE 0 IN
          /\ Len(enq[b]) = 1 + 2 * (Len(SentTo(b)) + pending)
          /\ enq[b][1] = b
          /\ \A j \in 1..(Len(SentTo(b)) + pending) :
                \/ \E m \in Range(SentTo(b)) :
                      <<enq[b][2*j], enq[b][2*j + 1]>> = <<m[3], m[4]>>
                \/ b = 0 /\ <<enq[b][2*j], enq[b][2*j + 1]>> \in Range(nat_sent_msgs)

C9_FramingOfMessages == C9_Framing /\ C9_OnlyXY

\* C9 witness: machine 1 has dispatched two messages, the first to bridge 0
\* and the second to the NAT.
C9_Witness ==
    /\ Len(SentBy(1)) = 2
    /\ SentBy(1)[1][2] = 0
    /\ SentBy(1)[2][2] = NatAddr
    /\ bpc[1] = "idle"

\* C10: the starving flag is never set while words sit in the FIFO or while
\* the last completed read returned a real word.
C10_StarvingIffLastReadEmpty ==
    \A a \in Addrs :
        in_starving[a] => (in_queue[a] = <<>> /\ last_read[a] = <<-1>>)

\* C7: from a state where every bridge is starving with an empty FIFO, the
\* NAT inbox is non-empty and the NAT worker is running, the worker
\* eventually has pushed the newest inbox packet (x then y) to bridge 0, or
\* has returned on a repeat, unless a machine writes another word first;
\* the push is followed by clearing bridge 0's starving flag.
NatRunning == nat_pc \notin {"returned", "error"}

Deadlocked ==
    AllStarving /\ AllFifosEmpty /\ nat_received_msgs # <<>> /\ NatRunning

NatPushed ==
    /\ nat_pc = "clear"
    /\ Len(in_queue[0]) >= 2
    /\ SubSeq(in_queue[0], Len(in_queue[0]) - 1, Len(in_queue[0]))
          = Last(nat_received_msgs)

C7_NatWakesNetwork ==
    /\ \A n \in 0..MaxWritesFair :
          (Deadlocked /\ TotalWrites = n)
              ~> (NatPushed \/ nat_pc = "returned" \/ TotalWrites > n)
    /\ (nat_pc = "clear") ~> (nat_pc = "check")
    /\ [][(nat_pc = "clear" /\ nat_pc' # "clear") => ~in_starving'[0]]_vars

\* C7 witness: the NAT has pushed a packet to bridge 0 while bridge 1 is
\* still starving and bridge 0's machine has not yet read the packet.
C7_Witness ==
    /\ nat_pc = "check"
    /\ Len(nat_sent_msgs) = 1
    /\ in_queue[0] = nat_sent_msgs[1]
    /\ ~in_starving[0]
    /\ in_starving[1]

\* C11: per-bridge input order.  For every receiving bridge the words its
\* machine has read are, in order, a prefix of its own address followed by
\* the (x, y) of the deliveries to it in the order they were performed; and
\* for every sender (a machine or the NAT) the deliveries it made to one
\* bridge are, in order, the packets it emitted to that bridge.  Nothing is
\* stated about the order between two receiving bridges.
RECURSIVE DeliveredPairs(_)
DeliveredPairs(d) ==
    IF d = <<>> THEN <<>> ELSE <<d[1][2], d[1][3]>> \o DeliveredPairs(Tail(d))

DeliveredFrom(s, b) == SelectSeq(dlv[b], LAMBDA d : d[1] = s)

EmittedTo(s, b) == SelectSeq(SentBy(s), LAMBDA m : m[2] = b)

C11_ReadsInDeliveryOrder ==
    \A b \in Addrs : IsPrefix(rlog[b], <<b>> \o DeliveredPairs(dlv[b]))

C11_SenderOrderKept ==
    /\ \A s \in Addrs : \A b \in Addrs :
          /\ Len(DeliveredFrom(s, b)) = Len(EmittedTo(s, b))
          /\ \A k \in 1..Len(DeliveredFrom(s, b)) :
                DeliveredFrom(s, b)[k] =
                    <<s, EmittedTo(s, b)[k][3], EmittedTo(s, b)[k][4]>>
    /\ \A b \in Addrs \ {0} : DeliveredFrom(NatAddr, b) = <<>>
    /\ Len(DeliveredFrom(NatAddr, 0)) <= Len(nat_sent_msgs)
    /\ \A k \in 1..Len(DeliveredFrom(NatAddr, 0)) :
          DeliveredFrom(NatAddr, 0)[k] = <<NatAddr>> \o nat_sent_msgs[k]

C11_PerBridgeOrder == C11_ReadsInDeliveryOrder /\ C11_SenderOrderKept

\* C11 witness: machine 1 emitted two different packets to bridge 0 and
\* machine 0 has read its address and both packets, in that order.
C11_Witness ==
    /\ dlv[0] = << <<1, 0, NatAddr>>, <<1, NatAddr, 0>> >>
    /\ rlog[0] = <<0, 0, NatAddr, NatAddr, 0>>


(***************************************************************************)
(* ===================== PART III a: the Machine ========================  *)
(* Pure operators for Machine.execute_next and its execute_NN methods.     *)
(***************************************************************************)

\* self.memory is a defaultdict(int): an address never written reads as 0.
Load(memory, addr) == IF addr \in DOMAIN memory THEN memory[addr] ELSE 0

\* Mutant of StoreMem: memory is as long as the image, a store beyond it
\* is dropped.
StoreMem_KnownOnly(memory, addr, value) ==
    [x \in DOMAIN memory |-> IF x = addr THEN value ELSE memory[x]]

\* self.memory[addr] = value
StoreMem(memory, addr, value) ==
    [x \in (DOMAIN memory) \cup {addr} |-> IF x = addr THEN value ELSE memory[x]]

\* Mutant of KnownOpcodes: every two-digit opcode finds a method.
KnownOpcodes_Any == 0..99

\* The opcodes for which an execute_NN method exists; for any other one
\* getattr raises AttributeError.
KnownOpcodes == {1, 2, 3, 4, 5, 6, 7, 8, 9, 99}

\* nargs: the number of positional-only parameters of execute_NN.
NArgs(op) ==
    CASE op \in {1, 2, 7, 8} -> 3
      [] op \in {5, 6} -> 2
      [] op \in {3, 4, 9} -> 1
      [] OTHER -> 0

\* _extract_modes: instr //= 100, then one decimal digit per parameter.
RECURSIVE ModeDigit(_, _)
ModeDigit(n, pos) == IF pos = 0 THEN n % 10 ELSE ModeDigit(n \div 10, pos - 1)

ExtractMode(instr, pos) == ModeDigit(instr \div 100, pos)

\* Parameter(self.memory[self.pc + 1 + pos], mode)
Param(m, pos) ==
    [number |-> Load(m.memory, m.pc + 1 + pos),
     mode |-> ExtractMode(Load(m.memory, m.pc), pos)]

\* load_value raises RuntimeError("unknown mode") outside modes 0, 1, 2.
CanLoad(param) == param.mode \in {0, 1, 2}

\* Mutant of load_value: a relative-mode operand is read as a position.
load_value_NoBase(m, param) ==
    IF param.mode = 1 THEN param.number ELSE Load(m.memory, param.number)

load_value(m, param) ==
    CASE param.mode = 0 -> Load(m.memory, param.number)
      [] param.mode = 1 -> param.number
      [] OTHER -> Load(m.memory, param.number + m.relative_base)

\* Mutant of CanStore: immediate mode is let through to the store.
CanStore_AllowsImmediate(param) == param.mode \in {0, 1, 2}

\* store_value raises RuntimeError for mode 1 and for unknown modes.
CanStore(param) == param.mode \in {0, 2}

\* Mutant of store_value: a relative-mode destination is used as a position.
store_value_NoBase(m, param, value) ==
    [m EXCEPT !.memory = StoreMem(@, param.number, value)]

store_value(m, param, value) ==
    [m EXCEPT !.memory =
        StoreMem(@, IF param.mode = 0 THEN param.number
                    ELSE param.number + m.relative_base, value)]

CurrentOpcode(m) == Load(m.memory, m.pc) % 100

\* What one execute_next call does up to its first port call:
\*   "crash"  an exception other than MachineTerminated/ResourceUnavailable
\*   "halt"   execute_99 raises MachineTerminated
\*   "read"   execute_03 calls input_port.read_int
\*   "write"  execute_04 has loaded its value and calls output_port.write_int
\*   "ok"     the instruction completes without a port
StepKind(m) ==
    LET op == CurrentOpcode(m) IN
    IF op \notin KnownOpcodes THEN "crash"
    ELSE IF op = 99 THEN "halt"
    ELSE IF op = 3 THEN "read"
    ELSE IF op = 4 THEN (IF CanLoad(Param(m, 0)) THEN "write" ELSE "crash")
    ELSE IF op = 9 THEN (IF CanLoad(Param(m, 0)) THEN "ok" ELSE "crash")
    ELSE IF op \in {5, 6}
         THEN (IF CanLoad(Param(m, 0)) /\ CanLoad(Param(m, 1)) THEN "ok" ELSE "crash")
    ELSE (IF CanLoad(Param(m, 0)) /\ CanLoad(Param(m, 1)) /\ CanStore(Param(m, 2))
          THEN "ok" ELSE "crash")

\* The exception of a "crash": getattr's AttributeError for an opcode without
\* a method, RuntimeError from load_value / store_value otherwise.
StepError(m) ==
    IF CurrentOpcode(m) \notin KnownOpcodes THEN "AttributeError" ELSE "RuntimeError"

\* Mutant of execute_99: `self.pc += 1` before the raise.
execute_99_Advances(m) == [m EXCEPT !.pc = m.pc + 1]

\* execute_99: `raise MachineTerminated`, the machine is left as it is.
execute_99(m) == m

BoolInt(b) == IF b THEN 1 ELSE 0

\* Mutant of JumpTarget: the operand is taken as an offset from pc.
JumpTarget_Offset(m, taken, pos_value) ==
    IF taken THEN m.pc + pos_value ELSE m.pc + 3

\* execute_05 / execute_06: `self.pc = pos_value if <taken> else self.pc + 3`
JumpTarget(m, taken, pos_value) == IF taken THEN pos_value ELSE m.pc + 3

\* execute_01, 02, 05, 06, 07, 08, 09 when StepKind(m) = "ok"
StepResult(m) ==
    LET op == CurrentOpcode(m)
        fst == load_value(m, Param(m, 0))
        snd == load_value(m, Param(m, 1))
    IN CASE op = 1 -> [store_value(m, Param(m, 2), fst + snd) EXCEPT !.pc = m.pc + 4]
         [] op = 2 -> [store_value(m, Param(m, 2), fst * snd) EXCEPT !.pc = m.pc + 4]
         [] op = 5 -> [m EXCEPT !.pc = JumpTarget(m, fst # 0, snd)]
         [] op = 6 -> [m EXCEPT !.pc = JumpTarget(m, fst = 0, snd)]
         [] op = 7 -> [store_value(m, Param(m, 2), BoolInt(fst < snd)) EXCEPT !.pc = m.pc + 4]
         [] op = 8 -> [store_value(m, Param(m, 2), BoolInt(fst = snd)) EXCEPT !.pc = m.pc + 4]
         [] OTHER  -> [m EXCEPT !.relative_base = m.relative_base + fst, !.pc = m.pc + 2]

\* Mutant of AfterRead: the input_tape.append is missing.
AfterRead_Untaped(m, value) ==
    [store_value(m, Param(m, 0), value) EXCEPT !.pc = m.pc + 2]

\* execute_03 after read_int returned `value`: store_value, input_tape.append,
\* pc += 2 (store_value may raise: see CanStore).
AfterRead(m, value) ==
    [store_value(m, Param(m, 0), value) EXCEPT
        !.input_tape = Append(m.input_tape, value), !.pc = m.pc + 2]

\* execute_04: the value passed to write_int, and what follows its return.
OutValue(m) == load_value(m, Param(m, 0))

\* Mutant of AfterWrite: the output_tape.append is missing.
AfterWrite_NoTape(m) == [m EXCEPT !.pc = m.pc + 2]

AfterWrite(m) ==
    [m EXCEPT !.output_tape = Append(m.output_tape, OutValue(m)), !.pc = m.pc + 2]

(***************************************************************************)
(* ======================= PART II: QueuePort ===========================  *)
(* read_int / read_ints / write_int / write_ints as steps of the calling   *)
(* thread t on port call[t].port.  tpc[t] is                               *)
(*   "idle"    no port call in progress                                    *)
(*   "enter"   at `with self.not_empty:` / `with self.mutex:`              *)
(*   "pop"     holding the mutex, inside read_ints' list comprehension     *)
(*   "wait"    inside not_empty.wait(polling_interval), mutex released     *)
(*   "clear"   holding the mutex, before starving.clear(); notify()        *)
(* polling_interval keeps its default (positive), so the ValueError of     *)
(* lines 287-288 is never raised.                                          *)
(***************************************************************************)

\* Number of words the producer threads may pass to write calls.
MaxWords == 3

\* Length of the list given to write_ints and the n given to read_ints.
BulkSize == 2

\* Largest value of QueuePort.retries tried (besides None).
MaxRetries == 1

IsRead(c) == c.op \in {"read_int", "read_ints"}

\* Mutant of MutexFree: the port methods run without taking the mutex.
MutexFree_Always(p) == TRUE

\* Acquiring a threading.Lock: possible when nobody holds it.
MutexFree(p) == mutex[p] = NoThread

\* `if self.queue:` (n = 1) and `if len(self.queue) >= n:`
QueueReady(q, n) == Len(q) >= n

\* Mutant of SentinelFires: the read never looks at its sentinel.
SentinelFires_Never(c) == FALSE

\* `if sentinel and sentinel()`: the machine passes sigterm.is_set.
SentinelFires(c) == c.sentinel /\ sigterm

\* Mutant of LoopExhausted: range(self.retries), one pass short.
LoopExhausted_OneShort(p, done) == retries[p] # <<>> /\ done >= retries[p][1]

\* The for-loop is exhausted: retries is not None and retries + 1 passes
\* have run.
LoopExhausted(p, done) == retries[p] # <<>> /\ done > retries[p][1]

\* Mutant of Enqueue: appendleft / extendleft instead of append / extend.
Enqueue_Left(q, vals) == vals \o q

\* queue.append(value) / queue.extend(values)
Enqueue(q, vals) == q \o vals

\* Mutant of Caught: `except MachineTerminated:` only.
Caught_OnlyTerminated(exc) == exc = "MachineTerminated"

\* `except (MachineTerminated, ResourceUnavailable): break`
Caught(exc) == exc \in {"MachineTerminated", "ResourceUnavailable"}

\* Mutant of ReturnValue: `return reason`.
ReturnValue_Reason(why) == why

\* What run_until_terminate gives its caller when the loop has been left:
\* the function has no return statement.
ReturnValue(why) == "None"

\* run_until_terminate ends: the loop is left by its test (exc = "none") or
\* by a caught exception and the call returns, or the exception propagates.
\* The machine as the call leaves it (mach') is recorded.
RunEnds(why, exc) ==
    LET normal == exc = "none" \/ Caught(exc) IN
    /\ mst' = IF normal THEN "returned" ELSE "crashed"
    /\ runs' = Append(runs, [why |-> why,
                             result |-> IF normal THEN ReturnValue(why) ELSE exc,
                             after |-> mach'])

\* How a finished port call continues in a client thread: the result is
\* recorded, the thread is free to make its next call.
ClientFinish(t, out, value) ==
    /\ tpc' = [tpc EXCEPT ![t] = "idle"]
    /\ call' = [call EXCEPT ![t] = NoCall]
    /\ iter' = [iter EXCEPT ![t] = 0]
    /\ got' = [got EXCEPT ![t] = <<>>]
    /\ outcome' = [outcome EXCEPT ![t] = out]
    /\ consumed' = IF out = "ret" /\ IsRead(call[t])
                   THEN [consumed EXCEPT ![t] = @ \o value] ELSE consumed
    /\ returns' = IF out = "ret" /\ call[t].op = "read_ints"
                  THEN returns \cup {<<t, value>>} ELSE returns
    /\ UNCHANGED <<mach, mst, woke_cancelled, runs>>

\* How a finished port call continues in the machine thread:
\*   read_int returned: the rest of execute_03 (a failing store_value
\*     propagates out of run_until_terminate);
\*   write_int returned: the rest of execute_04;
\*   ResourceUnavailable: caught by run_until_terminate, which breaks.
MachineFinish(out, value) ==
    /\ tpc' = [tpc EXCEPT ![MachineThread] = "idle"]
    /\ call' = [call EXCEPT ![MachineThread] = NoCall]
    /\ iter' = [iter EXCEPT ![MachineThread] = 0]
    /\ got' = [got EXCEPT ![MachineThread] = <<>>]
    /\ outcome' = [outcome EXCEPT ![MachineThread] = out]
    /\ UNCHANGED <<consumed, returns>>
    /\ woke_cancelled' =
         (\/ woke_cancelled
          \/ /\ out = "exc"
             /\ tpc[MachineThread] = "wait"
             /\ ~LoopExhausted(call[MachineThread].port, iter[MachineThread]))
    /\ IF out = "exc"
       THEN /\ UNCHANGED mach
            /\ RunEnds(IF tpc[MachineThread] = "wait"
                          /\ LoopExhausted(call[MachineThread].port, iter[MachineThread])
                       THEN "exhausted" ELSE "cancelled",
                       "ResourceUnavailable")
       ELSE IF out # "ret"
       THEN UNCHANGED mach /\ RunEnds("error", "IndexError")
       ELSE IF call[MachineThread].op = "read_int"
       THEN IF CanStore(Param(mach, 0))
            THEN mach' = AfterRead(mach, value[1]) /\ mst' = "test" /\ UNCHANGED runs
            ELSE UNCHANGED mach /\ RunEnds("error", "RuntimeError")
       ELSE mach' = AfterWrite(mach) /\ mst' = "test" /\ UNCHANGED runs

Finish(t, out, value) ==
    IF t = MachineThread THEN MachineFinish(out, value) ELSE ClientFinish(t, out, value)

\* The thread goes on inside its port call.
Continue(t, pc, done, words) ==
    /\ tpc' = [tpc EXCEPT ![t] = pc]
    /\ iter' = [iter EXCEPT ![t] = done]
    /\ got' = [got EXCEPT ![t] = words]
    /\ UNCHANGED <<call, outcome, consumed, returns, mach, mst, woke_cancelled,
                   runs>>

\* What no port step changes.
PortFrame ==
    UNCHANGED <<retries, initial_values, live, nextword, written, batches,
                image, sigterm, dpc, early_sig, late_started, netvars, restvars>>

\* Mutant of WaitHolder: the waiting thread keeps the mutex.
WaitHolder_Keeps(t) == t

\* not_empty is Condition(self.mutex): not_empty.wait(polling_interval)
\* releases the mutex for as long as it waits.  The holder of the mutex
\* while thread t waits:
WaitHolder(t) == NoThread

\* read_int / read_ints from `with self.not_empty:` (the mutex is acquired)
\* or from the return of not_empty.wait(polling_interval) (after a notify or
\* after the timeout, the mutex is re-acquired) through one pass of the
\* loop body, lines 290-297 and 304-311.  A wait that returns with the
\* for-loop exhausted leaves the with-block and raises ResourceUnavailable
\* (line 298 / 312).  Otherwise the pass returns the head word, or starts
\* popping n words, or sets starving and then raises ResourceUnavailable
\* (the sentinel fires) or waits, which releases the mutex.  Acquiring the
\* mutex and the pass are one step: nothing else can run under the mutex.
QRead(t) ==
    LET p == call[t].port
        c == call[t]
        released == [mutex EXCEPT ![p] = NoThread]
    IN
    /\ IsRead(c)
    /\ tpc[t] \in {"enter", "wait"}
    /\ MutexFree(p) \/ (tpc[t] = "wait" /\ mutex[p] = t)
    /\ IF tpc[t] = "wait" /\ LoopExhausted(p, iter[t])
       THEN /\ Finish(t, "exc", <<>>)
            /\ mutex' = released
            /\ UNCHANGED <<queue, pophist, starving>>
       ELSE IF QueueReady(queue[p], c.n)
       THEN IF c.op = "read_int"
            THEN /\ queue' = [queue EXCEPT ![p] = Tail(@)]
                 /\ pophist' = [pophist EXCEPT ![p] = Append(@, <<t, Head(queue[p])>>)]
                 /\ Finish(t, "ret", <<Head(queue[p])>>)
                 /\ mutex' = released
                 /\ UNCHANGED starving
            ELSE /\ mutex' = [mutex EXCEPT ![p] = t]
                 /\ Continue(t, "pop", 0, <<>>)
                 /\ UNCHANGED <<queue, pophist, starving>>
       ELSE /\ starving' = [starving EXCEPT ![p] = TRUE]
            /\ IF SentinelFires(c)
               THEN Finish(t, "exc", <<>>) /\ mutex' = released
               ELSE /\ Continue(t, "wait",
                                IF retries[p] = <<>> THEN 0
                                ELSE IF tpc[t] = "wait" THEN iter[t] + 1 ELSE 1,
                                <<>>)
                    /\ mutex' = [mutex EXCEPT ![p] = WaitHolder(t)]
            /\ UNCHANGED <<queue, pophist>>
    /\ UNCHANGED qhist
    /\ PortFrame

\* `[self.queue.popleft() for _ in range(n)]`, one popleft per step, under
\* the mutex; the call returns after the n-th.  (n = 0 returns at once;
\* popleft on an empty deque raises IndexError.)
QPop(t) ==
    LET p == call[t].port
        c == call[t]
        words == Append(got[t], Head(queue[p]))
    IN
    /\ tpc[t] = "pop"
    /\ IF Len(got[t]) = c.n
       THEN /\ mutex' = [mutex EXCEPT ![p] = NoThread]
            /\ Finish(t, "ret", got[t])
            /\ UNCHANGED <<queue, pophist>>
       ELSE IF queue[p] = <<>>
       THEN /\ mutex' = [mutex EXCEPT ![p] = NoThread]
            /\ Finish(t, "crash", <<>>)
            /\ UNCHANGED <<queue, pophist>>
       ELSE /\ queue' = [queue EXCEPT ![p] = Tail(@)]
            /\ pophist' = [pophist EXCEPT ![p] = Append(@, <<t, Head(queue[p])>>)]
            /\ IF Len(words) = c.n
               THEN /\ mutex' = [mutex EXCEPT ![p] = NoThread]
                    /\ Finish(t, "ret", words)
               ELSE /\ Continue(t, "pop", 0, words)
                    /\ UNCHANGED mutex
    /\ UNCHANGED <<starving, qhist>>
    /\ PortFrame

\* write_int / write_ints: `with self.mutex:` and queue.append(value)
\* (line 316) / queue.extend(values) (line 322).
QAppend(t) ==
    LET p == call[t].port IN
    /\ ~IsRead(call[t])
    /\ tpc[t] = "enter"
    /\ MutexFree(p)
    /\ mutex' = [mutex EXCEPT ![p] = t]
    /\ queue' = [queue EXCEPT ![p] = Enqueue(@, call[t].vals)]
    /\ qhist' = [qhist EXCEPT ![p] = Enqueue(@, call[t].vals)]
    /\ Continue(t, "clear", 0, <<>>)
    /\ UNCHANGED <<starving, pophist>>
    /\ PortFrame

\* Mutant of QClear: the write leaves the starving flag as it is.
QClear_KeepsFlag(t) ==
    LET p == call[t].port IN
    /\ tpc[t] = "clear"
    /\ mutex' = [mutex EXCEPT ![p] = NoThread]
    /\ Finish(t, "ret", <<>>)
    /\ UNCHANGED <<starving, queue, qhist, pophist>>
    /\ PortFrame

\* starving.clear(); not_empty.notify(); leave the with-block.
QClear(t) ==
    LET p == call[t].port IN
    /\ tpc[t] = "clear"
    /\ starving' = [starving EXCEPT ![p] = FALSE]
    /\ mutex' = [mutex EXCEPT ![p] = NoThread]
    /\ Finish(t, "ret", <<>>)
    /\ UNCHANGED <<queue, qhist, pophist>>
    /\ PortFrame

(***************************************************************************)
(* Client threads: callers of the port from outside a Machine.  Producers  *)
(* pass fresh words 1, 2, 3, ... so that loss, duplication and reordering  *)
(* show.  Consumers read the machine's output port when there is a         *)
(* machine, and the port the producers write otherwise.                    *)
(***************************************************************************)
ClientPort(t) ==
    IF MachineThread \in live /\ t \in Consumers THEN "out" ELSE "in"

ClientFrame ==
    UNCHANGED <<portvars, live, iter, got, outcome, qhist, pophist, consumed,
                returns, machvars, netvars, restvars>>

\* A consumer calls read_int() or read_ints(BulkSize), without a sentinel.
ClientRead(t) ==
    /\ t \in live \cap Consumers
    /\ tpc[t] = "idle"
    /\ \E op \in {"read_int", "read_ints"} :
        call' = [call EXCEPT ![t] =
                    [op |-> op, port |-> ClientPort(t),
                     n |-> IF op = "read_int" THEN 1 ELSE BulkSize,
                     vals |-> <<>>, sentinel |-> FALSE]]
    /\ tpc' = [tpc EXCEPT ![t] = "enter"]
    /\ UNCHANGED <<nextword, written, batches>>
    /\ ClientFrame

\* A producer calls write_int(w) or write_ints([w, w+1, ...]) with fresh words.
ClientWrite(t) ==
    /\ t \in live \cap Producers
    /\ tpc[t] = "idle"
    /\ \E op \in {"write_int", "write_ints"} :
        LET k == IF op = "write_int" THEN 1 ELSE BulkSize
            vals == [i \in 1..k |-> nextword + i - 1]
        IN
        /\ nextword + k - 1 <= MaxWords
        /\ call' = [call EXCEPT ![t] =
                      [op |-> op, port |-> ClientPort(t), n |-> 0,
                       vals |-> vals, sentinel |-> FALSE]]
        /\ nextword' = nextword + k
        /\ written' = written \o vals
        /\ batches' = IF op = "write_ints" THEN batches \cup {vals} ELSE batches
    /\ tpc' = [tpc EXCEPT ![t] = "enter"]
    /\ ClientFrame

\* QueuePort(initial_values=..., retries=...) and the threads using it.
InitialValues == {<<>>, <<0>>}

RetriesChoices == {<<>>} \cup {<<r>> : r \in 0..MaxRetries}

QueueStart ==
    /\ ThreadsStart
    /\ \E init \in InitialValues :
        PortsStart([p \in Ports |-> IF p = "in" THEN init ELSE <<>>])
    /\ \E r \in RetriesChoices : retries = [p \in Ports |-> r]
    /\ MachineOff
    /\ NetStart /\ wbudget = 0 /\ RestOff

\* One producer thread and one consumer thread.
QueueInit == QueueStart /\ live = {"p1", "c1"}

\* Two producer threads and two consumer threads.
QueueInitMulti ==
    /\ QueueStart
    /\ live = Clients
    /\ initial_values["in"] = <<>>
    /\ retries["in"] \in {<<>>, <<0>>}

QueueNext ==
    \/ \E t \in Clients : QRead(t)
    \/ \E t \in Clients : QPop(t)
    \/ \E t \in Clients : QAppend(t)
    \/ \E t \in Clients : QClear(t)
    \/ \E t \in Clients : ClientRead(t)
    \/ \E t \in Clients : ClientWrite(t)

SpecQueue == QueueInit /\ [][QueueNext]_vars

SpecQueueMulti == QueueInitMulti /\ [][QueueNext]_vars

(***************************************************************************)
(* Claims about the QueuePort                                              *)
(***************************************************************************)

\* C2: with one producer and one consumer thread, the words the consumer's
\* read calls have returned so far are a prefix of initial_values followed
\* by the words the producer passed to its write calls, in call order.
C2_ConsumerSeesPrefix ==
    IsPrefix(consumed["c1"], initial_values["in"] \o written)

\* C2 witness: the consumer has received the initial word and all the
\* producer's words, through read_int and read_ints, the producer having
\* used write_int and write_ints.
C2_Witness ==
    /\ consumed["c1"] = <<0>> \o [i \in 1..MaxWords |-> i]
    /\ returns # {}
    /\ batches # {}
    /\ Len(written) > BulkSize

\* C3: the words of one write_ints call are consecutive in the queue's
\* history; the words of one read_ints result were removed consecutively,
\* with no other reader's removal in between (also while the call is still
\* popping); and a read call's pass that waits or fails removes nothing.
PopCount == Len(pophist["in"])

C3_WriteAtomic ==
    \A b \in batches :
        b[1] \in Range(qhist["in"]) =>
            \E i \in 1..Len(qhist["in"]) :
                /\ i + Len(b) - 1 <= Len(qhist["in"])
                /\ SubSeq(qhist["in"], i, i + Len(b) - 1) = b

C3_ReadAtomic ==
    /\ \A r \in returns :
          /\ Len(r[2]) = BulkSize
          /\ \E i \in 1..PopCount :
                /\ i + BulkSize - 1 <= PopCount
                /\ \A j \in 1..BulkSize : pophist["in"][i + j - 1] = <<r[1], r[2][j]>>
                /\ SubSeq(qhist["in"], i, i + BulkSize - 1) = r[2]
    /\ \A t \in Consumers :
          tpc[t] = "pop" =>
              /\ Len(got[t]) <= PopCount
              /\ \A j \in 1..Len(got[t]) :
                    pophist["in"][PopCount - Len(got[t]) + j] = <<t, got[t][j]>>

C3_NothingRemovedOnWaitOrFail ==
    \A t \in Consumers :
        (/\ QRead(t)
         /\ \/ tpc'[t] = "wait"
            \/ tpc'[t] = "idle" /\ outcome'[t] = "exc") => queue' = queue

C3_BulkOperationsAtomic ==
    [](C3_WriteAtomic /\ C3_ReadAtomic) /\ [][C3_NothingRemovedOnWaitOrFail]_vars

\* C3 witness: a word of the other producer went in before the batch
\* <<1, 2>>, one consumer's read_ints returned two words and the other
\* consumer's call failed.
C3_Witness ==
    /\ qhist["in"] = <<3, 1, 2>>
    /\ \E r \in returns : r[1] = "c1"
    /\ outcome["c2"] = "exc"

(***************************************************************************)
(* ================== PART III b: the Machine's thread ==================  *)
(* mst is                                                                  *)
(*   "ready"     the thread has not called run_until_terminate yet         *)
(*   "test"      at `while not self.sigterm.is_set()`                      *)
(*   "exec"      the test passed, execute_next is about to be called       *)
(*   "io"        inside the port call of execute_03 / execute_04           *)
(*   "returned"  run_until_terminate has returned                          *)
(*   "crashed"   an exception left run_until_terminate                     *)
(***************************************************************************)

\* Images the Machine is built from: read a word, write it, halt; the same
\* in an endless loop; an endless loop without input or output.
Images == {<<3, 0, 4, 0, 99>>, <<3, 7, 4, 7, 1105, 1, 0, 0>>, <<1105, 1, 0>>}

\* Mutant of LoopExits: the `not` of the loop test is dropped.
LoopExits_Inverted(flag) == ~flag

\* Mutant of LoopExits: `while True:`, the loop never looks at sigterm.
LoopExits_Never(flag) == FALSE

\* `while not self.sigterm.is_set()`: the loop is left when the flag is set.
LoopExits(flag) == flag

MachineFrame ==
    UNCHANGED <<portvars, live, iter, got, outcome, histvars, image, dpc,
                woke_cancelled, netvars, restvars>>

\* threading.Thread(target=machine.run_until_terminate).start()
MStart ==
    /\ mst = "ready"
    /\ mst' = "test"
    /\ early_sig' = sigterm
    /\ UNCHANGED <<mach, sigterm, late_started, tpc, call, runs>>
    /\ MachineFrame

\* `while not self.sigterm.is_set():`
MLoopTest ==
    /\ mst = "test"
    /\ UNCHANGED <<mach, sigterm, early_sig, late_started, tpc, call>>
    /\ IF LoopExits(sigterm)
       THEN RunEnds("sigterm", "none")
       ELSE mst' = "exec" /\ UNCHANGED runs
    /\ MachineFrame

\* self.execute_next() up to its first port call; MachineTerminated is
\* caught (break), any other exception propagates.
MExec ==
    /\ mst = "exec"
    /\ late_started' = IF sigterm /\ late_started < 2
                       THEN late_started + 1 ELSE late_started
    /\ LET kind == StepKind(mach) IN
       CASE kind = "ok" ->
              /\ mach' = StepResult(mach)
              /\ mst' = "test"
              /\ UNCHANGED <<tpc, call, runs>>
         [] kind = "halt" ->
              /\ mach' = execute_99(mach)
              /\ RunEnds("halt", "MachineTerminated")
              /\ UNCHANGED <<tpc, call>>
         [] kind = "read" ->
              /\ call' = [call EXCEPT ![MachineThread] =
                            [op |-> "read_int", port |-> "in", n |-> 1,
                             vals |-> <<>>, sentinel |-> TRUE]]
              /\ tpc' = [tpc EXCEPT ![MachineThread] = "enter"]
              /\ mst' = "io"
              /\ UNCHANGED <<mach, runs>>
         [] kind = "write" ->
              /\ call' = [call EXCEPT ![MachineThread] =
                            [op |-> "write_int", port |-> "out", n |-> 0,
                             vals |-> <<OutValue(mach)>>, sentinel |-> TRUE]]
              /\ tpc' = [tpc EXCEPT ![MachineThread] = "enter"]
              /\ mst' = "io"
              /\ UNCHANGED <<mach, runs>>
         [] OTHER ->
              /\ UNCHANGED <<mach, tpc, call>>
              /\ RunEnds("error", StepError(mach))
    /\ UNCHANGED <<sigterm, early_sig>>
    /\ MachineFrame

\* DroneController.close: self.rc_program.sigterm.set()
DSetSigterm ==
    /\ dpc = "open"
    /\ sigterm' = TRUE
    /\ dpc' = "joining"
    /\ UNCHANGED <<mach, image, mst, early_sig, late_started, woke_cancelled,
                   runs, queuevars, netvars, restvars>>

\* DroneController.close: self.thread.join() returns once the thread's
\* target has returned or died.
DJoin ==
    /\ dpc = "joining"
    /\ mst \in {"returned", "crashed"}
    /\ dpc' = "closed"
    /\ UNCHANGED <<mach, image, mst, sigterm, early_sig, late_started,
                   woke_cancelled, runs, queuevars, netvars, restvars>>

\* Machine(instructions, input_port, output_port) on two QueuePorts, a
\* thread for it, and a driver thread that feeds the input port.
MachineInit ==
    /\ ThreadsStart
    /\ \E init \in InitialValues :
        PortsStart([p \in Ports |-> IF p = "in" THEN init ELSE <<>>])
    /\ \E r \in RetriesChoices :
        retries = [p \in Ports |-> IF p = "in" THEN r ELSE <<>>]
    /\ live = {MachineThread, "p1"}
    /\ image \in Images
    /\ mach = NewMachine(image)
    /\ mst = "ready"
    /\ sigterm = FALSE
    /\ dpc = "open"
    /\ early_sig = FALSE
    /\ late_started = 0
    /\ woke_cancelled = FALSE
    /\ runs = <<>>
    /\ NetStart /\ wbudget = 0 /\ RestOff

MachineStep ==
    \/ MStart
    \/ MLoopTest
    \/ MExec
    \/ QRead(MachineThread)
    \/ QAppend(MachineThread)
    \/ QClear(MachineThread)

DriverPortStep == QAppend("p1") \/ QClear("p1")

MachineNext ==
    \/ MStart
    \/ MLoopTest
    \/ MExec
    \/ QRead(MachineThread)
    \/ \E t \in {MachineThread, "p1"} : QAppend(t)
    \/ \E t \in {MachineThread, "p1"} : QClear(t)
    \/ ClientWrite("p1")
    \/ DSetSigterm
    \/ DJoin

SpecMachine == MachineInit /\ [][MachineNext]_vars

\* Every started thread keeps running: the machine thread takes its next
\* step (a wait on the port ends at the latest after polling_interval), a
\* writer inside write_int finishes it, and join returns once it can.
SpecMachineFair ==
    /\ MachineInit /\ [][MachineNext]_vars
    /\ WF_vars(MachineStep)
    /\ WF_vars(DriverPortStep)
    /\ WF_vars(DJoin)

(***************************************************************************)
(* Claims about the Machine's run loop                                     *)
(***************************************************************************)

\* C4: a machine waiting in opcode 3 on an empty QueuePort whose sigterm is
\* set leaves the read at its next wake-up if the queue is still empty, and
\* run_until_terminate then has returned; from there the driver's join
\* completes.
BlockedAndCancelled ==
    /\ mst = "io"
    /\ call[MachineThread].op = "read_int"
    /\ tpc[MachineThread] = "wait"
    /\ queue["in"] = <<>>
    /\ sigterm

C4_CancelledReadReturns ==
    /\ [][(BlockedAndCancelled /\ QRead(MachineThread)) => mst' = "returned"]_vars
    /\ BlockedAndCancelled ~> (mst = "returned" /\ dpc = "closed")

\* C4 witness: on a port without a retry bound the machine has waited on
\* the empty queue, the read was given up because of the sentinel, and the
\* driver's join has completed.
C4_Witness ==
    /\ retries["in"] = <<>>
    /\ woke_cancelled
    /\ outcome[MachineThread] = "exc"
    /\ mst = "returned"
    /\ dpc = "closed"

\* C5: with sigterm set the loop test never starts another instruction and
\* changes nothing; at most one execute_next (the one whose loop test had
\* already passed) begins after sigterm is set; and if sigterm was set
\* before run_until_terminate was called, no instruction executes: memory,
\* pc, relative_base, both tapes and both ports stay as they were (nothing
\* consumed from the input port, its starving flag not set, nothing written
\* to the output port).
C5_LoopTestStep ==
    (sigterm /\ mst = "test" /\ mst' # "test") =>
        /\ mst' = "returned"
        /\ UNCHANGED <<mach, queue, starving, mutex, tpc, call>>

C5_CancelledBeforeCall ==
    early_sig =>
        /\ mst \in {"test", "returned"}
        /\ mach = NewMachine(image)
        /\ late_started = 0
        /\ outcome[MachineThread] = "none"
        /\ queue["in"] = qhist["in"]
        /\ pophist["in"] = <<>>
        /\ ~starving["in"]
        /\ queue["out"] = <<>>

C5_NoInstructionAfterSigterm ==
    /\ [](late_started <= 1 /\ C5_CancelledBeforeCall)
    /\ [][C5_LoopTestStep]_vars

\* C5 witness: an instruction whose loop test had passed began after
\* sigterm was set, and the loop exited right after it.
C5_Witness == sigterm /\ late_started = 1 /\ mst = "returned"

\* The other case of C5: sigterm was set before the call, the words the
\* driver wrote are still all in the input port.
C5_WitnessEarly ==
    early_sig /\ mst = "returned" /\ Len(queue["in"]) > MaxWords

(***************************************************************************)
(* ============ PART III c: a host calling run_until_terminate ==========  *)
(* One thread builds a Machine on two QueuePorts, the input port loaded    *)
(* with a script, and calls run_until_terminate, possibly again after it   *)
(* ended; another thread may set sigterm at any moment.                    *)
(***************************************************************************)

\* Calls of run_until_terminate per machine.
MaxCalls == 2

\* Images: halt; add and halt; endless jump; echo; two reads; two writes;
\* every opcode once; negative addresses (position write, position read,
\* relative write, relative read); immediate destinations for opcodes 1, 2,
\* 3, 7, 8; opcodes without a method.
RunImages ==
    { <<99>>,
      <<1101, 2, 3, 5, 99, 0>>,
      <<1105, 1, 0>>,
      <<3, 0, 4, 0, 99>>,
      <<3, 0, 3, 1, 99>>,
      <<104, 7, 104, 8, 99>>,
      <<104, 7, 109, 1, 1002, 0, 2, 30, 1107, 1, 2, 31, 1108, 1, 1, 32,
        1105, 0, 0, 1106, 1, 0, 204, -1, 99>>,
      <<1101, 2, 3, -1, 99>>,
      <<1, -1, -2, 5, 99, 0>>,
      <<109, -3, 21101, 2, 3, 0, 99>>,
      <<204, -1, 99>>,
      <<11101, 2, 3, 0, 99>>,
      <<11102, 2, 3, 0, 99>>,
      <<103, 0, 99>>,
      <<11107, 2, 3, 0, 99>>,
      <<11108, 2, 3, 0, 99>>,
      <<1101, 5, 5, 0, 77>>,
      <<10, 0, 0>> }

\* QueuePort(script): the words the input port is loaded with.
RunScripts == {<<>>, <<7>>}

RunInit ==
    /\ ThreadsStart
    /\ \E script \in RunScripts :
        PortsStart([p \in Ports |-> IF p = "in" THEN script ELSE <<>>])
    /\ \E r \in {<<>>, <<0>>} :
        retries = [p \in Ports |-> IF p = "in" THEN r ELSE <<>>]
    /\ live = {MachineThread}
    /\ image \in RunImages
    /\ mach = NewMachine(image)
    /\ mst = "ready"
    /\ sigterm = FALSE
    /\ dpc = "open"
    /\ early_sig = FALSE
    /\ late_started = 0
    /\ woke_cancelled = FALSE
    /\ runs = <<>>
    /\ NetStart /\ wbudget = 0 /\ RestOff

\* The host calls run_until_terminate on the same machine once more.
MCallAgain ==
    /\ mst \in {"returned", "crashed"}
    /\ Len(runs) < MaxCalls
    /\ mst' = "test"
    /\ UNCHANGED <<mach, sigterm, early_sig, late_started, tpc, call, runs>>
    /\ MachineFrame

RunNext ==
    \/ MStart
    \/ MCallAgain
    \/ MLoopTest
    \/ MExec
    \/ QRead(MachineThread)
    \/ QAppend(MachineThread)
    \/ QClear(MachineThread)
    \/ DSetSigterm

SpecRun == RunInit /\ [][RunNext]_vars

(***************************************************************************)
(* Claims about single runs of a Machine                                   *)
(***************************************************************************)

\* C12: at every state output_tape equals, in order, the values opcode 4 has
\* passed to the output port, except that the value of a write_int still in
\* progress is in the port and not yet on the tape (it is appended after the
\* port accepted it); and the only step that changes the tape is the return
\* of execute_04's write_int, which appends the value written.
WriteInProgress ==
    /\ mst = "io"
    /\ call[MachineThread].op = "write_int"
    /\ tpc[MachineThread] = "clear"

C12_TapeMirrorsPort ==
    qhist["out"] = IF WriteInProgress
                   THEN Append(mach.output_tape, OutValue(mach))
                   ELSE mach.output_tape

C12_OnlyOpcode4Appends ==
    mach'.output_tape # mach.output_tape =>
        /\ QClear(MachineThread)
        /\ CurrentOpcode(mach) = 4
        /\ mach'.output_tape = Append(mach.output_tape, OutValue(mach))

C12_OutputTapeIsWhatWasWritten ==
    []C12_TapeMirrorsPort /\ [][C12_OnlyOpcode4Appends]_vars

\* C12 witness: the image that uses every opcode has halted after writing
\* 7 and then the word at address 0.
C12_Witness ==
    /\ Len(image) > 20
    /\ runs # <<>> /\ runs[1].why = "halt"
    /\ mach.output_tape = <<7, 104>>
    /\ queue["out"] = <<7, 104>>

\* C13: halting is idempotent.  While the last run_until_terminate call of a
\* machine ended on opcode 99, the machine stays exactly as that call left
\* it, at an opcode 99 and never inside a port call, also while a further
\* call is running; and a call that follows a halt ends again at the same
\* instruction (or at the loop test, when sigterm has been set meanwhile)
\* with the same memory, pc, relative_base and tapes, returning normally.
C13_NothingAfterHalt ==
    (runs # <<>> /\ Last(runs).why = "halt") =>
        /\ mach = Last(runs).after
        /\ CurrentOpcode(mach) = 99
        /\ mst # "io"
        /\ tpc[MachineThread] = "idle"

C13_HaltsAgain ==
    \A i \in 2..Len(runs) :
        runs[i - 1].why = "halt" =>
            /\ runs[i].why \in {"halt", "sigterm"}
            /\ sigterm \/ runs[i].why = "halt"
            /\ runs[i].result = "None"
            /\ runs[i].after = runs[i - 1].after

C13_HaltIsIdempotent == C13_NothingAfterHalt /\ C13_HaltsAgain

\* C13 witness: the echo image halted after echoing 7, was run again and
\* halted again, sigterm never set.
C13_Witness ==
    /\ ~sigterm
    /\ Len(runs) = 2
    /\ runs[1].why = "halt" /\ runs[2].why = "halt"
    /\ mach.output_tape = <<7>>
    /\ mach.pc = 4

\* A program containing no opcode 3 and no opcode 4, as loaded.
NoPortOpcodes(instructions) ==
    \A k \in 1..Len(instructions) : instructions[k] % 100 \notin {3, 4}

\* C14 as stated: for a program containing no opcode 3 and no opcode 4,
\* run_until_terminate never consults sigterm and runs to completion, so no
\* call of it ends because sigterm is set; and only opcodes 3 and 4 block.
C14_AsStated ==
    /\ NoPortOpcodes(image) => \A i \in 1..Len(runs) : runs[i].why # "sigterm"
    /\ mst = "io" => CurrentOpcode(mach) \in {3, 4}

\* C14 amended: only opcodes 3 and 4 enter a port call, and only opcode 3
\* waits; an execute_next of any other opcode completes in one step without
\* touching a port; a run that executes no opcode 3 or 4 never touches a
\* port and ends on opcode 99, on an error, or at the loop test, which
\* consults sigterm before every instruction and leaves exactly when it is
\* set.
C14_OnlyPortOpcodesBlock ==
    /\ mst = "io" => CurrentOpcode(mach) \in {3, 4}
    /\ tpc[MachineThread] = "wait" => CurrentOpcode(mach) = 3
    /\ NoPortOpcodes(image) =>
          /\ mst # "io"
          /\ tpc[MachineThread] = "idle"
          /\ queue = [p \in Ports |-> initial_values[p]]
          /\ \A i \in 1..Len(runs) : runs[i].why \in {"halt", "error", "sigterm"}
    /\ \A i \in 1..Len(runs) : runs[i].why = "sigterm" => sigterm

C14_StepWithoutPort ==
    (mst = "exec" /\ CurrentOpcode(mach) \notin {3, 4} /\ mst' # "exec") =>
        /\ mst' \in {"test", "returned", "crashed"}
        /\ UNCHANGED <<queue, starving, mutex, tpc, call>>

C14_LoopTestConsultsSigterm ==
    (mst = "test" /\ mst' # "test") => (mst' = "returned" <=> sigterm)

C14_NoBlockingWithoutPorts ==
    /\ []C14_OnlyPortOpcodesBlock
    /\ [][C14_StepWithoutPort /\ C14_LoopTestConsultsSigterm]_vars

\* C14 witness: the endless jump, a program without opcode 3 or 4, was
\* stopped by sigterm after it had executed instructions.
C14_Witness ==
    /\ image = <<1105, 1, 0>>
    /\ ~early_sig
    /\ late_started = 1
    /\ runs # <<>> /\ runs[1].why = "sigterm"

\* The calls of run_until_terminate that returned to their caller.
ReturnedNormally(r) == r.why \in {"halt", "cancelled", "exhausted", "sigterm"}

C16_ExhaustedScriptFails ==
    ~sigterm =>
        /\ tpc[MachineThread] # "wait"
        /\ \A i \in 1..Len(runs) :
              (CurrentOpcode(runs[i].after) = 3 /\ queue["in"] = <<>>) =>
                  runs[i].result \notin {"None"}

\* C17: cancellation during a blocking opcode 3 is a clean exit.  While the
\* machine is inside the read_int of opcode 3 nothing of it changes; the step
\* at which the read is given up because sigterm is set ends the call of
\* run_until_terminate normally (the caller gets None, no exception), and
\* leaves pc at that opcode 3 and memory, relative_base and both tapes as
\* they were before the instruction.
InsideRead == mst = "io" /\ call[MachineThread].op = "read_int"

C17_ReadGivenUp ==
    (InsideRead /\ sigterm /\ queue["in"] = <<>> /\ QRead(MachineThread)) =>
        /\ mst' = "returned"
        /\ Last(runs').why \in {"cancelled", "exhausted"}
        /\ Last(runs').result = "None"
        /\ mach' = mach
        /\ CurrentOpcode(mach') = 3

C17_NoEffectWhileReading ==
    (InsideRead /\ mst' = "io") => mach' = mach

C17_Cancelled ==
    \A i \in 1..Len(runs) :
        runs[i].why = "cancelled" =>
            /\ runs[i].result = "None"
            /\ CurrentOpcode(runs[i].after) = 3

C17_CancelledReadIsCleanExit ==
    /\ []C17_Cancelled
    /\ [][C17_ReadGivenUp /\ C17_NoEffectWhileReading]_vars

\* C17 witness: the image of two reads consumed the scripted 7, waited in
\* its second opcode 3 and was cancelled there: pc addresses that opcode 3,
\* address 0 holds the 7 of the first read, the tape records one input.
C17_Witness ==
    /\ woke_cancelled
    /\ mst = "returned"
    /\ Last(runs).why = "cancelled"
    /\ mach.pc = 2
    /\ mach.memory[0] = 7
    /\ mach.input_tape = <<7>>

\* The address a position-mode or relative-mode parameter resolves to in
\* load_value / store_value.
Address(m, param) ==
    IF param.mode = 0 THEN param.number ELSE param.number + m.relative_base

\* The instruction at pc has an operand in position or relative mode that
\* resolves to a negative address.
NegativeOperand(m) ==
    \E pos \in 0..(NArgs(CurrentOpcode(m)) - 1) :
        /\ Param(m, pos).mode \in {0, 2}
        /\ Address(m, Param(m, pos)) < 0

\* C18: an instruction with a position-mode or relative-mode operand that
\* resolves to a negative address, read or written, aborts the run with a
\* failure and leaves memory unchanged: executing it ends the call with an
\* exception reaching the caller, and memory never holds a negative address.
C18_Step ==
    (/\ mst = "exec" /\ mst' # "exec"
     /\ CurrentOpcode(mach) \in KnownOpcodes /\ NegativeOperand(mach)) =>
        /\ mst' = "crashed"
        /\ mach'.memory = mach.memory

C18_NegativeAddressFails ==
    /\ [][C18_Step]_vars
    /\ [](\A addr \in DOMAIN mach.memory : addr >= 0)

\* The instruction at pc has a write destination, and its mode is immediate.
ImmediateDestination(m) ==
    \/ CurrentOpcode(m) \in {1, 2, 7, 8} /\ Param(m, 2).mode = 1
    \/ CurrentOpcode(m) = 3 /\ Param(m, 0).mode = 1

C19_ArithmeticStep ==
    (/\ mst = "exec" /\ mst' # "exec"
     /\ CurrentOpcode(mach) \in {1, 2, 7, 8} /\ ImmediateDestination(mach)) =>
        /\ mst' = "crashed"
        /\ Last(runs').result = "RuntimeError"
        /\ mach' = mach

C19_InputStep ==
    (InsideRead /\ ImmediateDestination(mach) /\ mst' # "io") =>
        /\ mach' = mach
        /\ IF outcome'[MachineThread] = "ret"
           THEN /\ mst' = "crashed"
                /\ Last(runs').result = "RuntimeError"
                /\ Len(queue'["in"]) = Len(queue["in"]) - 1
           ELSE /\ mst' = "returned"
                /\ Last(runs').why \in {"cancelled", "exhausted"}

C20_Step ==
    (mst = "exec" /\ mst' # "exec" /\ CurrentOpcode(mach) \notin (1..9) \cup {99}) =>
        /\ mst' = "crashed"
        /\ Last(runs').why = "error"
        /\ Last(runs').result = "AttributeError"
        /\ mach' = mach
        /\ UNCHANGED <<queue, starving, mutex, tpc, call>>

C20_Ended ==
    \A i \in 1..Len(runs) :
        CurrentOpcode(runs[i].after) \notin (1..9) \cup {99} =>
            \/ runs[i].why = "sigterm"
            \/ runs[i].why = "error" /\ runs[i].result = "AttributeError"

C20_UnknownOpcodeFails == []C20_Ended /\ [][C20_Step]_vars

\* C20 witness: after a first instruction stored 10 at address 0, the word
\* 77 at pc = 4 was executed and the caller got the error.
C20_Witness ==
    /\ mst = "crashed"
    /\ Last(runs).result = "AttributeError"
    /\ mach.pc = 4
    /\ mach.memory[4] = 77
    /\ mach.memory[0] = 10

(***************************************************************************)
(* ================= PART III d: instruction semantics ==================  *)
(* The machine of Part III c on images that exercise memory beyond the     *)
(* image, every operand mode of the arithmetic, comparison and jump        *)
(* opcodes, and the example programs.                                      *)
(***************************************************************************)

\* The operand word that makes a parameter of the given mode denote the cell
\* `addr` (position), the word `value` (immediate) or the cell `addr` with
\* relative_base = 3 (relative).
Arg(mode, addr, value) ==
    CASE mode = 0 -> addr
      [] mode = 1 -> value
      [] OTHER -> addr - 3

\* 109,3 ; <op> a b d ; 99 ; a ; b   with the sources in cells 7 and 8.
ArithImage(op, m1, m2, m3, a, b, d) ==
    <<109, 3, op + 100 * m1 + 1000 * m2 + 10000 * m3,
      Arg(m1, 7, a), Arg(m2, 8, b), Arg(m3, d, d), 99, a, b>>

ArithImages ==
    { ArithImage(op, m1, m2, m3, ab[1], ab[2], d) :
        op \in {1, 2, 7, 8}, m1 \in {0, 1, 2}, m2 \in {0, 1, 2}, m3 \in {0, 2},
        ab \in {<<3, 5>>, <<5, 3>>, <<3, 3>>}, d \in {7, 9, 12} }

\* 109,3 ; <op> c t ; 104,1,99 ; 104,2,99 ; c ; 8   with the condition in
\* cell 11 and the jump target (8) in cell 12.
JumpImage(op, m1, m2, c) ==
    <<109, 3, op + 100 * m1 + 1000 * m2, Arg(m1, 11, c), Arg(m2, 12, 8),
      104, 1, 99, 104, 2, 99, c, 8>>

JumpImages ==
    { JumpImage(op, m1, m2, c) :
        op \in {5, 6}, m1 \in {0, 1, 2}, m2 \in {0, 1, 2}, c \in {0, 5, -1} }

\* Writes and reads at and beyond the end of the image, position and
\* relative mode.
BeyondImages ==
    { <<1101, 2, 3, 50, 4, 50, 4, 51, 99>>,
      <<109, 40, 21101, 2, 3, 10, 204, 10, 4, 49, 99>>,
      <<3, 9, 4, 9, 4, 10, 99>>,
      <<109, 5, 203, 2, 4, 7, 99>> }

EqualsEight == <<3, 9, 8, 9, 10, 9, 4, 9, 99, -1, 8>>

NonZero == <<3, 3, 1105, -1, 9, 1101, 0, 0, 12, 4, 12, 99, 1>>

Quine == <<109, 1, 204, -1, 1001, 100, 1, 100, 1008, 100, 16, 101,
           1006, 101, 0, 99>>

ExecImages ==
    ArithImages \cup JumpImages \cup BeyondImages
        \cup {EqualsEight, NonZero, Quine}

ExecScripts == {<<>>, <<0>>, <<7>>, <<8>>, <<42>>}

\* The programs that take input are run on every script and with and
\* without a retry limit on the input port; the others on an empty port.
ExecInit ==
    /\ ThreadsStart
    /\ image \in ExecImages
    /\ \E script \in ExecScripts :
        /\ image \in ArithImages \cup JumpImages => script = <<>>
        /\ PortsStart([p \in Ports |-> IF p = "in" THEN script ELSE <<>>])
    /\ \E r \in {<<>>, <<0>>} :
        /\ image \in ArithImages \cup JumpImages => r = <<>>
        /\ retries = [p \in Ports |-> IF p = "in" THEN r ELSE <<>>]
    /\ live = {MachineThread}
    /\ mach = NewMachine(image)
    /\ mst = "ready"
    /\ sigterm = FALSE
    /\ dpc = "open"
    /\ early_sig = FALSE
    /\ late_started = 0
    /\ woke_cancelled = FALSE
    /\ runs = <<>>
    /\ NetStart /\ wbudget = 0 /\ RestOff

SpecExec == ExecInit /\ [][RunNext]_vars

\* The script the input port was loaded with.
Script == initial_values["in"]

\* The run has ended on opcode 99.
Halted == mst = "returned" /\ Last(runs).why = "halt"

\* The addresses looked at: the images' cells and the cells they reach.
ProbeAddrs == 0..110

\* The cell the instruction at pc stores to, if it stores.
StoresTo(m, addr) ==
    \/ /\ CurrentOpcode(m) \in {1, 2, 7, 8}
       /\ Param(m, 2).mode \in {0, 2}
       /\ Address(m, Param(m, 2)) = addr
    \/ /\ CurrentOpcode(m) = 3
       /\ Param(m, 0).mode \in {0, 2}
       /\ Address(m, Param(m, 0)) = addr

\* The value an instruction of opcode 1, 2, 7 or 8 computes.
Computed(m) ==
    LET a == load_value(m, Param(m, 0))
        b == load_value(m, Param(m, 1))
    IN CASE CurrentOpcode(m) = 1 -> a + b
         [] CurrentOpcode(m) = 2 -> a * b
         [] CurrentOpcode(m) = 7 -> IF a < b THEN 1 ELSE 0
         [] OTHER -> IF a = b THEN 1 ELSE 0

\* C21: memory extends on demand.  A machine built from an image of N words
\* reads the image's words below N and 0 at every other non-negative
\* address; a cell changes only by an instruction that stores to it, so a
\* never-written cell keeps reading 0; a position-mode or relative-mode
\* store to an address at or beyond N succeeds, the cell then reads the
\* stored value, and every other cell keeps its value; a word read from the
\* port and stored beyond N is what a later output of that cell emits.
C21_Fresh ==
    (mst = "ready") =>
        \A addr \in ProbeAddrs :
            Load(mach.memory, addr) =
                IF addr < Len(image) THEN image[addr + 1] ELSE 0

C21_Step ==
    /\ \A addr \in ProbeAddrs :
          Load(mach'.memory, addr) # Load(mach.memory, addr) =>
              StoresTo(mach, addr)
    /\ \A addr \in ProbeAddrs :
          (/\ mst = "exec" /\ mst' # "exec"
           /\ CurrentOpcode(mach) \in {1, 2, 7, 8}
           /\ CanLoad(Param(mach, 0)) /\ CanLoad(Param(mach, 1))
           /\ StoresTo(mach, addr) /\ addr >= Len(image)) =>
              /\ mst' = "test"
              /\ Load(mach'.memory, addr) = Computed(mach)
    /\ \A addr \in ProbeAddrs :
          (/\ InsideRead /\ mst' = "test"
           /\ StoresTo(mach, addr) /\ addr >= Len(image)) =>
              Load(mach'.memory, addr) = Last(mach'.input_tape)

C21_Examples ==
    Halted =>
        /\ image = <<1101, 2, 3, 50, 4, 50, 4, 51, 99>> =>
              mach.output_tape = <<5, 0>>
        /\ image = <<109, 40, 21101, 2, 3, 10, 204, 10, 4, 49, 99>> =>
              mach.output_tape = <<5, 0>>
        /\ image = <<3, 9, 4, 9, 4, 10, 99>> =>
              mach.output_tape = Script \o <<0>>

C21_MemoryExtends ==
    /\ []C21_Fresh
    /\ [][C21_Step]_vars
    /\ []C21_Examples

\* C21 witness: a store to cell 50 of a 9-word image was read back and the
\* never-written cell 51 read 0; the machine has halted.
C21_Witness ==
    /\ Halted
    /\ image = <<1101, 2, 3, 50, 4, 50, 4, 51, 99>>
    /\ Load(mach.memory, 50) = 5
    /\ mach.output_tape = <<5, 0>>

\* The k-th operand (k = 1, 2, 3) of the instruction at pc, read off the
\* instruction word and memory: its mode digit, its word, the cell it
\* denotes and its value.
OperandMode(m, k) ==
    LET instr == Load(m.memory, m.pc) IN
    CASE k = 1 -> (instr \div 100) % 10
      [] k = 2 -> (instr \div 1000) % 10
      [] OTHER -> (instr \div 10000) % 10

OperandWord(m, k) == Load(m.memory, m.pc + k)

OperandCell(m, k) ==
    IF OperandMode(m, k) = 0 THEN OperandWord(m, k)
    ELSE OperandWord(m, k) + m.relative_base

OperandValue(m, k) ==
    IF OperandMode(m, k) = 1 THEN OperandWord(m, k)
    ELSE Load(m.memory, OperandCell(m, k))

\* Nothing but memory and pc differs between the two machine records.
SameBaseAndTapes(m, n) ==
    /\ n.relative_base = m.relative_base
    /\ n.input_tape = m.input_tape
    /\ n.output_tape = m.output_tape

\* C23: opcodes 1, 2, 7 and 8, for every combination of source modes
\* (position, immediate, relative) and destination modes (position,
\* relative), store a + b, a * b, (a < b) and (a = b) as 1 or 0 in the
\* destination cell, advance pc by 4, and change no other cell, the
\* relative base or a tape; the image 3,9,8,9,10,9,4,9,99,-1,8 emits 1 for
\* the input 8 and 0 for the input 7.
C23_Step ==
    (/\ mst = "exec" /\ mst' # "exec"
     /\ CurrentOpcode(mach) \in {1, 2, 7, 8}
     /\ OperandMode(mach, 1) \in {0, 1, 2}
     /\ OperandMode(mach, 2) \in {0, 1, 2}
     /\ OperandMode(mach, 3) \in {0, 2}) =>
        LET a == OperandValue(mach, 1)
            b == OperandValue(mach, 2)
            dest == OperandCell(mach, 3)
            value == CASE CurrentOpcode(mach) = 1 -> a + b
                       [] CurrentOpcode(mach) = 2 -> a * b
                       [] CurrentOpcode(mach) = 7 -> IF a < b THEN 1 ELSE 0
                       [] OTHER -> IF a = b THEN 1 ELSE 0
        IN /\ mst' = "test"
           /\ mach'.pc = mach.pc + 4
           /\ Load(mach'.memory, dest) = value
           /\ \A addr \in (ProbeAddrs \cup DOMAIN mach'.memory) \ {dest} :
                 Load(mach'.memory, addr) = Load(mach.memory, addr)
           /\ SameBaseAndTapes(mach, mach')

C23_Example ==
    (Halted /\ image = EqualsEight) =>
        /\ Script = <<8>> => mach.output_tape = <<1>>
        /\ Script = <<7>> => mach.output_tape = <<0>>
        /\ Script \in {<<0>>, <<42>>} => mach.output_tape = <<0>>

C23_ArithmeticAndComparison ==
    /\ [][C23_Step]_vars
    /\ []C23_Example

\* C23 witness: 7 (less than) with both sources and the destination in
\* relative mode has compared 3 < 5 and stored 1 in cell 12, three cells
\* beyond the image; the machine has halted at pc 6.
C23_Witness ==
    /\ Halted
    /\ image = ArithImage(7, 2, 2, 2, 3, 5, 12)
    /\ Load(mach.memory, 12) = 1
    /\ mach.pc = 6

\* C24: opcode 5 sets pc to the value of its second operand when the first
\* is non-zero and to pc + 3 otherwise, opcode 6 does so when the first is
\* zero; neither changes memory, the relative base or a tape; the image
\* 3,3,1105,-1,9,1101,0,0,12,4,12,99,1 emits 0 for the input 0 and 1 for
\* the input 42.
C24_Step ==
    (/\ mst = "exec" /\ mst' # "exec"
     /\ CurrentOpcode(mach) \in {5, 6}
     /\ OperandMode(mach, 1) \in {0, 1, 2}
     /\ OperandMode(mach, 2) \in {0, 1, 2}) =>
        LET taken == IF CurrentOpcode(mach) = 5
                     THEN OperandValue(mach, 1) # 0
                     ELSE OperandValue(mach, 1) = 0
        IN /\ mst' = "test"
           /\ mach'.pc = IF taken THEN OperandValue(mach, 2) ELSE mach.pc + 3
           /\ mach'.memory = mach.memory
           /\ SameBaseAndTapes(mach, mach')

C24_Example ==
    (Halted /\ image = NonZero) =>
        /\ Script = <<0>> => mach.output_tape = <<0>>
        /\ Script = <<42>> => mach.output_tape = <<1>>
        /\ Script \in {<<7>>, <<8>>} => mach.output_tape = <<1>>

C24_Jumps ==
    /\ [][C24_Step]_vars
    /\ []C24_Example

\* C24 witness: 6 (jump if false) with both operands in relative mode found
\* 0 in cell 11, jumped to the 8 held in cell 12, and the machine emitted 2
\* and halted.
C24_Witness ==
    /\ Halted
    /\ image = JumpImage(6, 2, 2, 0)
    /\ mach.output_tape = <<2>>
    /\ mach.pc = 10

\* C25: the image 109,1,204,-1,1001,100,1,100,1008,100,16,101,1006,101,0,99
\* reads no input, emits its own sixteen words in order and halts: what it
\* has emitted is always a prefix of the image, a run of it ends only on
\* opcode 99 (or at the loop test, when sigterm is set), and at the halt
\* the output tape is the image.
C25_QuineCopiesItself ==
    image = Quine =>
        /\ IsPrefix(mach.output_tape, Quine)
        /\ mach.input_tape = <<>>
        /\ queue["in"] = Script
        /\ \A i \in 1..Len(runs) : runs[i].why \in {"halt", "sigterm"}
        /\ Halted => mach.output_tape = Quine

\* C25 witness: the quine has halted on an empty input port with its
\* sixteen words on the output tape.
C25_Witness ==
    /\ image = Quine
    /\ Script = <<>>
    /\ Halted
    /\ Len(mach.output_tape) = 16
    /\ mach.output_tape = Quine

(***************************************************************************)
(* ===================== PART III e: word width =========================  *)
(* The echo program on words of every size.  A word is a Python int, which *)
(* has no width, and the model's integers have one; so the words given to  *)
(* the echo program are written as a sign followed by base-65536 digits,   *)
(* most significant first: <<1, 7>> is 7, <<-1, 5>> is -5, <<1, 1, 0, 1>>  *)
(* is 2^32 + 1 and <<-1, 256, 0, 0>> is -(2^40).  The echo program copies  *)
(* the word and does no arithmetic on it.                                  *)
(***************************************************************************)
Echo == <<3, 0, 4, 0, 99>>

\* 0, 7, -5, 2^31 - 1, -(2^32), 2^32 + 1, -(2^32 + 1), -(2^40), 2^80.
EchoWords ==
    { <<1, 0>>, <<1, 7>>, <<-1, 5>>, <<1, 32767, 65535>>, <<-1, 1, 0, 0>>,
      <<1, 1, 0, 1>>, <<-1, 1, 0, 1>>, <<-1, 256, 0, 0>>,
      <<1, 1, 0, 0, 0, 0, 0>> }

EchoStart(script) ==
    /\ ThreadsStart
    /\ PortsStart([p \in Ports |-> IF p = "in" THEN script ELSE <<>>])
    /\ \E r \in {<<>>, <<0>>} :
        retries = [p \in Ports |-> IF p = "in" THEN r ELSE <<>>]
    /\ live = {MachineThread}
    /\ image = Echo
    /\ mach = NewMachine(image)
    /\ mst = "ready"
    /\ sigterm = FALSE
    /\ dpc = "open"
    /\ early_sig = FALSE
    /\ late_started = 0
    /\ woke_cancelled = FALSE
    /\ runs = <<>>
    /\ NetStart /\ wbudget = 0 /\ RestOff

EchoInit == \E k \in EchoWords : EchoStart(<<k>>)

SpecEcho == EchoInit /\ [][RunNext]_vars

\* C26: words have no width.  The image 3,0,4,0,99 run on the input [k]
\* halts with output tape [k] and input tape [k] for every word k, negative
\* words and words of magnitude above 2^32 included: neither tape ever holds
\* more than one word, a word on a tape is k, no run of the image fails, and
\* at the halt both tapes hold exactly k.
C26_EchoAnyWord ==
    /\ Len(mach.input_tape) <= 1
    /\ Len(mach.output_tape) <= 1
    /\ Len(mach.input_tape) = 1 => mach.input_tape[1] = Script[1]
    /\ Len(mach.output_tape) = 1 => mach.output_tape[1] = Script[1]
    /\ \A i \in 1..Len(runs) : runs[i].why \in {"halt", "sigterm"}
    /\ Halted => Len(mach.input_tape) = 1 /\ Len(mach.output_tape) = 1

\* C26 witness: the echo of -(2^40) has halted with the word on both tapes.
C26_Witness ==
    /\ Halted
    /\ Script = << <<-1, 256, 0, 0>> >>
    /\ mach.output_tape = << <<-1, 256, 0, 0>> >>
    /\ mach.input_tape = << <<-1, 256, 0, 0>> >>

(***************************************************************************)
(* Claims about the NAT inbox                                              *)
(***************************************************************************)

\* Machine a writes the third word of a packet in this step.
CompletesPacket(a) ==
    /\ Len(out_buffer[a]) = 2
    /\ bpc[a] = "idle"
    /\ wlog'[a] # wlog[a]

\* C29: a packet addressed to the NAT is appended as (x, y) to the NAT
\* inbox and touches no bridge queue and no starving flag; a packet with
\* any other destination leaves the inbox as it is and changes the queue of
\* the addressed bridge only (by appending x, y) and, in the second half of
\* the delivery, the starving flag of the addressed bridge only; the inbox
\* changes in no other way; and the packet the NAT worker sends, or
\* compares with the one it sent last, is the newest entry of the inbox.
C29_Dispatch ==
    \A a \in Addrs :
        CompletesPacket(a) =>
            LET dest == out_buffer[a][1]
                x == out_buffer[a][2]
                y == Last(wlog'[a])
            IN IF dest = NatAddr
               THEN /\ nat_received_msgs' = Append(nat_received_msgs, <<x, y>>)
                    /\ in_queue' = in_queue
                    /\ in_starving' = in_starving
               ELSE /\ nat_received_msgs' = nat_received_msgs
                    /\ in_starving' = in_starving
                    /\ \A b \in Addrs :
                          in_queue'[b] = IF b = dest THEN in_queue[b] \o <<x, y>>
                                         ELSE in_queue[b]

C29_SecondHalf ==
    \A a \in Addrs :
        (bpc[a] = "clear" /\ bpc'[a] = "idle") =>
            /\ nat_received_msgs' = nat_received_msgs
            /\ in_queue' = in_queue
            /\ \A b \in Addrs \ {out_buffer[a][1]} : in_starving'[b] = in_starving[b]
            /\ ~in_starving'[out_buffer[a][1]]

C29_InboxOnlyGrowsByPackets ==
    nat_received_msgs' # nat_received_msgs =>
        \E a \in Addrs : CompletesPacket(a) /\ out_buffer[a][1] = NatAddr

C29_NatUsesNewest ==
    /\ nat_sent_msgs' # nat_sent_msgs =>
          nat_sent_msgs' = Append(nat_sent_msgs, Last(nat_received_msgs))
    /\ (nat_pc = "act" /\ nat_pc' = "returned") =>
          Last(nat_sent_msgs)[2] = Last(nat_received_msgs)[2]
    /\ (nat_pc = "act" /\ nat_pc' = "deliver" /\ nat_sent_msgs # <<>>) =>
          Last(nat_sent_msgs)[2] # Last(nat_received_msgs)[2]

C29_InboxFrame ==
    [][C29_Dispatch /\ C29_SecondHalf /\ C29_InboxOnlyGrowsByPackets
          /\ C29_NatUsesNewest]_vars

\* C29 witness: two different packets reached the NAT and it is delivering
\* the second one, having sent nothing before.
C29_Witness ==
    /\ nat_received_msgs = << <<0, 0>>, <<NatAddr, NatAddr>> >>
    /\ nat_sent_msgs = << <<NatAddr, NatAddr>> >>
    /\ nat_pc = "deliver"

\* C30: when the NAT worker finds the network idle and its inbox empty it
\* stops with an error (IndexError) and delivers nothing: that step leaves
\* nat_sent_msgs, every bridge queue and every flag as they are, the worker
\* takes no step afterwards, and it has never put a word into bridge 0.
C30_Step ==
    /\ (nat_pc = "act" /\ nat_received_msgs = <<>> /\ nat_pc' # "act") =>
          /\ nat_pc' = "error"
          /\ nat_sent_msgs' = nat_sent_msgs
          /\ in_queue' = in_queue
          /\ in_starving' = in_starving
    /\ nat_pc = "error" => nat_pc' = "error" /\ nat_sent_msgs' = nat_sent_msgs

C30_Stopped ==
    nat_pc = "error" =>
        /\ nat_sent_msgs = <<>>
        /\ DeliveredFrom(NatAddr, 0) = <<>>
        /\ \A k \in 1..Len(msg_log) : msg_log[k][1] # NatAddr

C30_EmptyInboxAborts ==
    /\ [][C30_Step]_vars
    /\ []C30_Stopped

\* C30 witness: the worker has stopped with the error while both bridges
\* starve, and a packet that reached the inbox afterwards stays undelivered.
C30_Witness ==
    /\ nat_pc = "error"
    /\ network_idle
    /\ nat_received_msgs # <<>>
    /\ nat_sent_msgs = <<>>

(***************************************************************************)
(* ================== PART IV: locks and waits ==========================  *)
(* The two places where a thread waits next to a lock: a QueuePort with a  *)
(* producer and a consumer thread, or the switch with its machines and the *)
(* NAT worker.  A thread that has begun a write or a delivery goes on      *)
(* whenever the lock it needs is free, and a read_ints that holds the      *)
(* mutex finishes its pops.                                                *)
(***************************************************************************)
LocksInit == QueueInit \/ NetInitFair

\* The switch runs when there are no port client threads.
LocksNext ==
    \/ QueueNext
    \/ live = {} /\ NetNext

SpecLocks ==
    /\ LocksInit /\ [][LocksNext]_vars
    /\ \A t \in Clients : WF_vars(QAppend(t) \/ QClear(t) \/ QPop(t))
    /\ \A a \in Addrs :
         WF_vars(BridgeClear(a) /\ UNCHANGED <<queuevars, machvars, restvars>>)

\* Thread t is inside not_empty.wait of a read on port p.
WaitingOn(t, p) == tpc[t] = "wait" /\ call[t].port = p

\* Thread t has called write_int / write_ints on port p and not returned.
WritingTo(t, p) ==
    /\ tpc[t] \in {"enter", "clear"}
    /\ ~IsRead(call[t])
    /\ call[t].port = p

\* C28: no lock is held across a wait.  A thread waiting inside read_int or
\* read_ints does not hold the port's mutex; while a reader waits and no
\* other thread is inside the mutex, a writer that has called write_int or
\* write_ints can take the mutex at once; every write call that has begun
\* returns; while the NAT worker waits for the bridges to starve a machine
\* that has extended a queue can clear the flag, and every delivery that
\* has begun completes.
C28_WaiterHoldsNothing ==
    \A t \in Threads : \A p \in Ports : WaitingOn(t, p) => mutex[p] # t

C28_WriterCanEnter ==
    \A w \in Producers : \A r \in Consumers : \A p \in Ports :
        (WaitingOn(r, p) /\ WritingTo(w, p)) =>
            IF tpc[w] = "enter" THEN ENABLED QAppend(w) ELSE ENABLED QClear(w)

C28_DeliveryCanClear ==
    \A a \in Addrs :
        (nat_pc = "wait" /\ bpc[a] = "clear") =>
            ENABLED (BridgeClear(a) /\ UNCHANGED <<queuevars, machvars, restvars>>)

Drones == {1, 2}

\* Mutant of MemoryObject: `self.memory = instructions`, the list itself.
MemoryObject_Shared(i) == 0

\* Machine.__post_init__ fills a new defaultdict for every machine: the
\* object that holds the memory of machine i.
MemoryObject(i) == i

\* list(rc_instructions)
ListOf(instructions) ==
    [addr \in 0..(Len(instructions) - 1) |-> instructions[addr + 1]]

\* The words of a list object, in order.
Words(list) == [k \in 1..Cardinality(DOMAIN list) |-> list[k - 1]]

\* read x, read y, add them into cell 0, emit cell 0;
\* read x into cell 20, add 1 into cell 21, emit cell 21;
\* add cells 9 and 10 into cell 11 and emit it (multiply, once patched).
FleetImages ==
    { <<3, 0, 3, 1, 1, 0, 1, 0, 4, 0, 99>>,
      <<3, 20, 1001, 20, 1, 21, 4, 21, 99>>,
      <<1, 9, 10, 11, 4, 11, 99, 0, 0, 3, 4, 0>> }

\* The positions a probe passes to write_int.
ProbeInputs == {0, 1}

NoDrone ==
    [st |-> "none", obj |-> 0, pc |-> 0, relative_base |-> 0,
     input_tape |-> <<>>, output_tape |-> <<>>, inq |-> <<>>, patched |-> FALSE]

FleetInit ==
    /\ \E instructions \in FleetImages :
          heap = [o \in {0} \cup Drones |->
                     IF o = 0 THEN ListOf(instructions) ELSE <<>>]
    /\ fleet = [i \in Drones |-> NoDrone]
    /\ RingOff /\ BridgesBuilt /\ RobotOff /\ MainOff
    /\ NetStart /\ wbudget = 0 /\ QueueOff /\ MachineOff

\* Machine i as a Machine record.
FView(i) ==
    [memory |-> heap[fleet[i].obj],
     pc |-> fleet[i].pc,
     relative_base |-> fleet[i].relative_base,
     input_tape |-> fleet[i].input_tape,
     output_tape |-> fleet[i].output_tape]

\* Machine i becomes the Machine record m, in thread state st, with inq
\* left on its input port.
FPut(i, m, st, inq) ==
    /\ heap' = [heap EXCEPT ![fleet[i].obj] = m.memory]
    /\ fleet' = [fleet EXCEPT ![i] =
                    [@ EXCEPT !.st = st, !.pc = m.pc,
                              !.relative_base = m.relative_base,
                              !.input_tape = m.input_tape,
                              !.output_tape = m.output_tape,
                              !.inq = inq]]

FleetFrame ==
    UNCHANGED <<netvars, queuevars, machvars, ampvars, seedvars, robotvars,
                cleanvars>>

\* probe: Machine(self.rc_instructions, input_port, output_port), the
\* thread is started, write_int(x), write_int(y).
FBuild(i) ==
    /\ fleet[i].st = "none"
    /\ \E x \in ProbeInputs, y \in ProbeInputs :
        LET m == NewMachine(Words(heap[0])) IN
        /\ heap' = [heap EXCEPT ![MemoryObject(i)] = m.memory]
        /\ fleet' = [fleet EXCEPT ![i] =
                        [st |-> "built", obj |-> MemoryObject(i), pc |-> m.pc,
                         relative_base |-> m.relative_base,
                         input_tape |-> m.input_tape,
                         output_tape |-> m.output_tape,
                         inq |-> <<x, y>>, patched |-> FALSE]]
    /\ FleetFrame

\* machine.memory[0] = 2, between construction and the run.
FPatch(i) ==
    /\ fleet[i].st = "built"
    /\ ~fleet[i].patched
    /\ heap' = [heap EXCEPT ![fleet[i].obj] = StoreMem(@, 0, 2)]
    /\ fleet' = [fleet EXCEPT ![i].patched = TRUE]
    /\ FleetFrame

\* One execute_next of machine i; a read waits for a word on its port.
FStep(i) ==
    LET m == FView(i)
        kind == StepKind(m)
    IN
    /\ fleet[i].st \in {"built", "run"}
    /\ CASE kind = "ok" -> FPut(i, StepResult(m), "run", fleet[i].inq)
         [] kind = "halt" -> FPut(i, execute_99(m), "halted", fleet[i].inq)
         [] kind = "read" ->
              /\ fleet[i].inq # <<>>
              /\ IF CanStore(Param(m, 0))
                 THEN FPut(i, AfterRead(m, Head(fleet[i].inq)), "run",
                           Tail(fleet[i].inq))
                 ELSE FPut(i, m, "crashed", Tail(fleet[i].inq))
         [] kind = "write" -> FPut(i, AfterWrite(m), "run", fleet[i].inq)
         [] OTHER -> FPut(i, m, "crashed", fleet[i].inq)
    /\ FleetFrame

FleetNext ==
    \/ \E i \in Drones : FBuild(i)
    \/ \E i \in Drones : FPatch(i)
    \/ \E i \in Drones : FStep(i)

SpecFleet == FleetInit /\ [][FleetNext]_vars

\* C22: a machine copies its image.  Building, patching or running a
\* machine never changes the instruction list; a machine that has not been
\* patched starts from the words of the list; a step or patch of one
\* machine changes nothing of another machine: not its memory, position,
\* tapes or port; so what a machine emits depends on the list, on its own
\* patch and on the words written to its own port only.
C22_ListKept == heap'[0] = heap[0]

C22_OthersKept ==
    \A i \in Drones : \A j \in Drones \ {i} :
        (fleet'[i] # fleet[i] /\ fleet[j].st # "none") =>
            /\ fleet'[j] = fleet[j]
            /\ heap'[fleet[j].obj] = heap[fleet[j].obj]

C22_StartsFromList ==
    \A i \in Drones :
        (fleet[i].st = "built" /\ ~fleet[i].patched) =>
            \A addr \in 0..30 :
                Load(heap[fleet[i].obj], addr) = Load(heap[0], addr)

C22_OwnInputsOnly ==
    \A i \in Drones :
        fleet[i].st = "halted" =>
            LET in == fleet[i].input_tape
                out == fleet[i].output_tape
            IN CASE Words(heap[0]) = <<3, 0, 3, 1, 1, 0, 1, 0, 4, 0, 99>> ->
                      out = IF fleet[i].patched THEN <<4>> ELSE <<in[1] + in[2]>>
                 [] Words(heap[0]) = <<3, 20, 1001, 20, 1, 21, 4, 21, 99>> ->
                      ~fleet[i].patched => out = <<in[1] + 1>>
                 [] OTHER ->
                      out = IF fleet[i].patched THEN <<12>> ELSE <<7>>

C22_MachinesAreIsolated ==
    /\ [][C22_ListKept /\ C22_OthersKept]_vars
    /\ []C22_StartsFromList
    /\ []C22_OwnInputsOnly

\* C22 witness: two machines built from the same list have both overwritten
\* cells 0 and 1 with their own inputs and halted with different memories,
\* and the list still starts with its instruction.
C22_Witness ==
    /\ fleet[1].st = "halted" /\ fleet[2].st = "halted"
    /\ fleet[1].output_tape = <<0>> /\ fleet[2].output_tape = <<2>>
    /\ heap[1] # heap[2]
    /\ heap[0][0] = 3
    /\ heap[1][0] = 0

(***************************************************************************)
(* ================= PART V b: the amplifier ring =======================  *)
(* test_sequential_looped_wiring: one Program per phase, each on a thread  *)
(* of its own, amplifier i reading rq[i] and writing rq[Succ(i)].          *)
(* amp[i].st is                                                            *)
(*   "run"      between two execute_next calls                             *)
(*   "input"    inside QueueInterface.input                                *)
(*   "done"     run_until_terminate has returned (ProgramTerminated)       *)
(*   "crashed"  the thread died of another exception                       *)
(* The amplifier programs below stay inside their list and use modes 0     *)
(* and 1 only, so Program's IndexError and RuntimeError do not arise.      *)
(***************************************************************************)

\* Amplifiers in the ring.
NAmps == 2

Ring == 1..NAmps

Succ(i) == (i % NAmps) + 1

\* read the phase; then twice: read s, emit s + phase; halt.
\* read the phase; then: read s, halt if s >= 7, else emit s + phase.
AmpImages ==
    { <<3, 18, 3, 19, 1, 18, 19, 19, 4, 19, 1001, 20, -1, 20, 1005, 20, 2,
        99, 0, 0, 2>>,
      <<3, 21, 3, 22, 1007, 22, 7, 23, 1006, 23, 20, 1, 21, 22, 22, 4, 22,
        1105, 1, 2, 99, 0, 0, 0>> }

\* itertools.permutations of the phase settings.
PhaseOrders == {f \in [Ring -> Ring] : \A i, j \in Ring : f[i] = f[j] => i = j}

\* self.memory[k] on a list.
ListAt(memory, k) == memory[(IF k < 0 THEN k + Len(memory) ELSE k) + 1]

\* Parameter(self.memory[self.pc + 1 + pos], mode)
ProgramParam(p, pos) ==
    [number |-> ListAt(p.memory, p.pc + 1 + pos),
     mode |-> ExtractMode(ListAt(p.memory, p.pc), pos)]

read_value(p, param) ==
    IF param.mode = 0 THEN ListAt(p.memory, param.number) ELSE param.number

write_value(p, param, value) ==
    [p EXCEPT !.memory = [@ EXCEPT ![param.number + 1] = value]]

ProgramOpcode(p) == ListAt(p.memory, p.pc) % 100

\* Program.execute_01, 02, 05, 06, 07, 08
ProgramResult(p) ==
    LET op == ProgramOpcode(p)
        fst == read_value(p, ProgramParam(p, 0))
        snd == read_value(p, ProgramParam(p, 1))
        dest == ProgramParam(p, 2)
    IN CASE op = 1 -> [write_value(p, dest, fst + snd) EXCEPT !.pc = p.pc + 4]
         [] op = 2 -> [write_value(p, dest, fst * snd) EXCEPT !.pc = p.pc + 4]
         [] op = 5 -> [p EXCEPT !.pc = IF fst # 0 THEN snd ELSE p.pc + 3]
         [] op = 6 -> [p EXCEPT !.pc = IF fst = 0 THEN snd ELSE p.pc + 3]
         [] op = 7 -> [write_value(p, dest, BoolInt(fst < snd)) EXCEPT !.pc = p.pc + 4]
         [] OTHER  -> [write_value(p, dest, BoolInt(fst = snd)) EXCEPT !.pc = p.pc + 4]

\* Mutant of MostRecent: only the first output is remembered.
MostRecent_First(old, value) == IF old = <<>> THEN <<value>> ELSE old

\* QueueInterface.output: self.most_recent_output = value (None is <<>>).
MostRecent(old, value) == <<value>>

Stopped(i) == amp[i].st \in {"done", "crashed"}

RingInit ==
    /\ \E instructions \in AmpImages :
          amp = [i \in Ring |->
                    [memory |-> instructions, pc |-> 0, st |-> "run",
                     most_recent_output |-> <<>>, terminated |-> FALSE,
                     outlog |-> <<>>]]
    /\ \E phases \in PhaseOrders :
          rq = [i \in Ring |-> IF i = 1 THEN <<phases[i], 0>> ELSE <<phases[i]>>]
    /\ drv = [pc |-> "join_last", k |-> 0, result |-> <<>>]
    /\ FleetOff /\ BridgesBuilt /\ RobotOff /\ MainOff
    /\ NetStart /\ wbudget = 0 /\ QueueOff /\ MachineOff

RingFrame ==
    UNCHANGED <<netvars, queuevars, machvars, fleetvars, seedvars, robotvars,
                cleanvars>>

\* One execute_next of amplifier i, up to the call of interface.input();
\* execute_04 with QueueInterface.output; execute_99 raises
\* ProgramTerminated, which ends run_until_terminate.
AStep(i) ==
    LET p == amp[i]
        op == ProgramOpcode(p)
        value == read_value(p, ProgramParam(p, 0))
    IN
    /\ p.st = "run"
    /\ IF op \in {1, 2, 5, 6, 7, 8}
       THEN amp' = [amp EXCEPT ![i] = ProgramResult(p)] /\ UNCHANGED rq
       ELSE IF op = 3
       THEN amp' = [amp EXCEPT ![i].st = "input"] /\ UNCHANGED rq
       ELSE IF op = 4
       THEN /\ amp' = [amp EXCEPT ![i] =
                         [p EXCEPT !.most_recent_output = MostRecent(@, value),
                                   !.outlog = Append(@, value),
                                   !.pc = p.pc + 2]]
            /\ rq' = [rq EXCEPT ![Succ(i)] = Append(@, value)]
       ELSE /\ amp' = [amp EXCEPT ![i].st = IF op = 99 THEN "done" ELSE "crashed"]
            /\ UNCHANGED rq
    /\ UNCHANGED drv
    /\ RingFrame

\* QueueInterface.input: `while not self.terminated:` in_queue.get with a
\* timeout; a word is stored by execute_03, Empty goes round the loop
\* again, and terminated raises ProgramTerminated.
AInput(i) ==
    LET p == amp[i] IN
    /\ p.st = "input"
    /\ IF p.terminated
       THEN amp' = [amp EXCEPT ![i].st = "done"] /\ UNCHANGED rq
       ELSE /\ rq[i] # <<>>
            /\ amp' = [amp EXCEPT ![i] =
                         [write_value(p, ProgramParam(p, 0), Head(rq[i]))
                             EXCEPT !.pc = p.pc + 2, !.st = "run"]]
            /\ rq' = [rq EXCEPT ![i] = Tail(@)]
    /\ UNCHANGED drv
    /\ RingFrame

\* environments[-1].thread.join()
RJoinLast ==
    /\ drv.pc = "join_last"
    /\ Stopped(NAmps)
    /\ drv' = [drv EXCEPT !.pc = "signal", !.k = 1]
    /\ UNCHANGED <<amp, rq>>
    /\ RingFrame

\* environ.interface.signal_terminate()
RSignal ==
    /\ drv.pc = "signal"
    /\ amp' = [amp EXCEPT ![drv.k].terminated = TRUE]
    /\ drv' = [drv EXCEPT !.pc = "join"]
    /\ UNCHANGED rq
    /\ RingFrame

\* environ.thread.join(); after the last one,
\* return environments[-1].interface.most_recent_output
RJoin ==
    /\ drv.pc = "join"
    /\ Stopped(drv.k)
    /\ drv' = IF drv.k < NAmps
              THEN [drv EXCEPT !.pc = "signal", !.k = drv.k + 1]
              ELSE [drv EXCEPT !.pc = "returned",
                               !.result = amp[NAmps].most_recent_output]
    /\ UNCHANGED <<amp, rq>>
    /\ RingFrame

RingNext ==
    \/ \E i \in Ring : AStep(i)
    \/ \E i \in Ring : AInput(i)
    \/ RJoinLast
    \/ RSignal
    \/ RJoin

\* Every thread that can take a step takes one.
SpecRing ==
    /\ RingInit /\ [][RingNext]_vars
    /\ \A i \in Ring : WF_vars(AStep(i) \/ AInput(i))
    /\ WF_vars(RJoinLast \/ RSignal \/ RJoin)

\* C27: the threaded amplifier ring.  When test_sequential_looped_wiring
\* has returned, every amplifier thread has ended, the last amplifier had
\* ended before any terminate signal was given, and the value returned is
\* the last word the last amplifier wrote (None if it wrote none); an
\* amplifier that is waiting for input when it is signalled to terminate
\* takes no further word and its thread ends.
C27_ReturnsAfterAll ==
    drv.pc = "returned" => \A i \in Ring : Stopped(i)

C27_ReturnsFinalWord ==
    drv.pc = "returned" =>
        drv.result = IF amp[NAmps].outlog = <<>> THEN <<>>
                     ELSE <<Last(amp[NAmps].outlog)>>

C27_LastEndsUnsignalled ==
    (\E i \in Ring : amp[i].terminated) => Stopped(NAmps)

C27_SignalledTakesNothing ==
    \A i \in Ring :
        (amp[i].terminated /\ amp[i].st = "input" /\ amp'[i] # amp[i]) =>
            /\ amp'[i].st = "done"
            /\ rq'[i] = rq[i]

C27_RingTerminates ==
    /\ []C27_ReturnsAfterAll
    /\ []C27_ReturnsFinalWord
    /\ []C27_LastEndsUnsignalled
    /\ [][C27_SignalledTakesNothing]_vars
    /\ \A i \in Ring :
          (amp[i].terminated /\ amp[i].st = "input") ~> Stopped(i)

\* C27 witness: the last amplifier wrote 3 and 6 and halted, the first one
\* was waiting for input and ended when it was signalled, and 6 was
\* returned.
C27_Witness ==
    /\ drv.pc = "returned"
    /\ drv.result = <<6>>
    /\ amp[NAmps].outlog = <<3, 6>>
    /\ amp[1].terminated /\ amp[1].st = "done"
    /\ ProgramOpcode(amp[1]) = 3

(***************************************************************************)
(* ================= PART VI: building the network ======================  *)
(* main, lines 30-40: the switch is created without bridges, get_bridge is *)
(* called for every machine address, and only then are the machine threads *)
(* started.  get_bridge may be called again at any time.                   *)
(***************************************************************************)

\* How many get_bridge calls may name one address.
MaxAsks == 2

\* The addresses get_bridge is called with: the machines' and the NAT's.
AskAddrs == Addrs \cup {NatAddr}

\* BridgeAdapter.__post_init__: self.in_queue.append(self.addr) on the
\* deque the dataclass field has just created.
Seed(addr) == <<addr>>

\* CentralSwitch() alone: no bridge exists, no thread runs.
SeedInit ==
    /\ in_queue = [a \in Addrs |-> <<>>]
    /\ enq = [a \in Addrs |-> <<>>]
    /\ out_buffer = [a \in Addrs |-> <<>>]
    /\ in_starving = [a \in Addrs |-> FALSE]
    /\ nat_received_msgs = <<>>
    /\ nat_sent_msgs = <<>>
    /\ nat_first_received = FALSE
    /\ msg_log = <<>>
    /\ bpc = [a \in Addrs |-> "idle"]
    /\ last_read = [a \in Addrs |-> <<>>]
    /\ nat_pc = "check"
    /\ nat_i = 1
    /\ wlog = [a \in Addrs |-> <<>>]
    /\ dlv = [a \in Addrs |-> <<>>]
    /\ rlog = [a \in Addrs |-> <<>>]
    /\ wbudget = MaxWritesFair
    /\ bridges = {}
    /\ asked = [a \in AskAddrs |-> 0]
    /\ QueueOff /\ MachineOff /\ FleetOff /\ RingOff /\ RobotOff /\ MainOff

\* Mutant of get_bridge: the `host_addr not in self.bridges` test is
\* dropped, every call installs a new, freshly seeded adapter.
get_bridge_Reseeds(host_addr) ==
    /\ asked[host_addr] < MaxAsks
    /\ asked' = [asked EXCEPT ![host_addr] = @ + 1]
    /\ IF host_addr = NatAddr
       THEN UNCHANGED <<bridges, netvars>>
       ELSE /\ bridges' = bridges \cup {host_addr}
            /\ in_queue' = [in_queue EXCEPT ![host_addr] = Seed(host_addr)]
            /\ enq' = [enq EXCEPT ![host_addr] = @ \o Seed(host_addr)]
            /\ UNCHANGED <<out_buffer, in_starving, nat_received_msgs,
                           nat_sent_msgs, nat_first_received, msg_log, bpc,
                           last_read, nat_pc, nat_i, wlog, wbudget, dlv, rlog>>
    /\ UNCHANGED <<queuevars, machvars, fleetvars, ampvars, robotvars, cleanvars>>

\* CentralSwitch.get_bridge: ValueError for the NAT's address; a new
\* BridgeAdapter only for an address that has none; the stored adapter is
\* returned otherwise.
get_bridge(host_addr) ==
    /\ asked[host_addr] < MaxAsks
    /\ asked' = [asked EXCEPT ![host_addr] = @ + 1]
    /\ IF host_addr = NatAddr
       THEN UNCHANGED <<bridges, netvars>>
       ELSE IF host_addr \notin bridges
       THEN /\ bridges' = bridges \cup {host_addr}
            /\ in_queue' = [in_queue EXCEPT ![host_addr] = Seed(host_addr)]
            /\ enq' = [enq EXCEPT ![host_addr] = @ \o Seed(host_addr)]
            /\ UNCHANGED <<out_buffer, in_starving, nat_received_msgs,
                           nat_sent_msgs, nat_first_received, msg_log, bpc,
                           last_read, nat_pc, nat_i, wlog, wbudget, dlv, rlog>>
       ELSE UNCHANGED <<bridges, netvars>>
    /\ UNCHANGED <<queuevars, machvars, fleetvars, ampvars, robotvars, cleanvars>>

\* main starts the threads (lines 39-40) after the loop of lines 32-36 has
\* asked for every machine's bridge.
ThreadsStarted == bridges = Addrs

SeedNext ==
    \/ \E a \in AskAddrs : get_bridge(a)
    \/ ThreadsStarted /\ (\E a \in Addrs : BridgeRead(a)) /\ UNCHANGED <<queuevars, machvars, restvars>>
    \/ ThreadsStarted /\ (\E a \in Addrs : BridgeStarve(a)) /\ UNCHANGED <<queuevars, machvars, restvars>>
    \/ ThreadsStarted /\ (\E a \in Addrs : BridgeWrite(a)) /\ UNCHANGED <<queuevars, machvars, restvars>>
    \/ ThreadsStarted /\ (\E a \in Addrs : BridgeClear(a)) /\ UNCHANGED <<queuevars, machvars, restvars>>
    \/ ThreadsStarted /\ (\E a \in Addrs : BridgeSignal(a)) /\ UNCHANGED <<queuevars, machvars, restvars>>

SpecSeed == SeedInit /\ [][SeedNext]_vars

\* C31: the first word a machine reads from its bridge is its own address
\* (no -1 and no delivered word comes before it), words delivered before
\* the machine's first read come after the address, and a get_bridge call
\* for an address that already has a bridge changes neither the set of
\* bridges nor any FIFO.
C31_AddressFirst ==
    \A a \in Addrs :
        /\ a \in bridges => enq[a] # <<>> /\ enq[a][1] = a
        /\ IsPrefix(rlog[a], enq[a])
        /\ rlog[a] # <<>> => rlog[a][1] = a
        /\ rlog[a] = <<>> => last_read[a] = <<>> /\ ~in_starving[a]
        /\ in_queue[a] = SubSeq(enq[a], Len(rlog[a]) + 1, Len(enq[a]))

C31_AskAgain ==
    \A a \in Addrs :
        (a \in bridges /\ asked'[a] = asked[a] + 1) =>
            /\ bridges' = bridges
            /\ UNCHANGED netvars

C31_BridgeSeededOnce == []C31_AddressFirst /\ [][C31_AskAgain]_vars

\* C31 witness: a packet reached bridge 0 before machine 0 read anything,
\* the switch was asked for bridge 0 a second time, and machine 0 has then
\* read its address, x and y in that order.
C31_Witness ==
    /\ asked[0] = 2
    /\ rlog[0] = <<0, NatAddr, 0>>
    /\ dlv[0] = << <<1, NatAddr, 0>> >>

(***************************************************************************)
(* Claims about the read loop of the QueuePort                             *)
(***************************************************************************)
MachineReading ==
    /\ mst = "io"
    /\ call[MachineThread].op = "read_int"
    /\ tpc[MachineThread] \in {"enter", "wait"}

\* A pass of the machine's read_int finds the queue empty and the sentinel
\* false.
EmptyPass ==
    /\ MachineReading
    /\ QRead(MachineThread)
    /\ queue["in"] = <<>>
    /\ ~sigterm

\* C32: a pass of read_int that finds the queue empty and the sentinel
\* false sets starving and leaves the queue alone; it fails exactly when
\* retries = r is a number and r + 1 passes have found the queue empty
\* before it, and waits for another pass otherwise.  So with retries = r
\* the read always ends, and with retries = None it fails only on its
\* sentinel and otherwise keeps polling: another pass is always possible
\* once the mutex is free.
C32_PassStep ==
    EmptyPass =>
        /\ queue' = queue
        /\ IF retries["in"] # <<>> /\ iter[MachineThread] = retries["in"][1] + 1
           THEN /\ tpc[MachineThread] = "wait"
                /\ outcome'[MachineThread] = "exc"
                /\ mst' = "returned"
                /\ Last(runs').why = "exhausted"
           ELSE /\ tpc'[MachineThread] = "wait"
                /\ starving'["in"]
                /\ iter[MachineThread] <= (IF retries["in"] = <<>> THEN 0 ELSE retries["in"][1])
                /\ iter'[MachineThread] =
                      IF retries["in"] = <<>> THEN 0 ELSE iter[MachineThread] + 1

C32_NoneNeverExhausts ==
    /\ (retries["in"] = <<>> /\ outcome[MachineThread] = "exc") => sigterm
    /\ \A i \in 1..Len(runs) : retries["in"] = <<>> => runs[i].why # "exhausted"
    /\ (MachineReading /\ MutexFree("in")) => ENABLED QRead(MachineThread)
    /\ (MachineReading /\ tpc[MachineThread] = "wait") => starving["in"] \/ written # <<>>

C32_ReadLoop ==
    /\ [][C32_PassStep]_vars
    /\ []C32_NoneNeverExhausts
    /\ (MachineReading /\ retries["in"] # <<>>) ~> ~MachineReading

\* C32 witness: with retries = 1 and nothing ever written the machine's
\* read has failed by exhaustion, sigterm unset, starving set.
C32_Witness ==
    /\ retries["in"] = <<1>>
    /\ initial_values["in"] = <<>>
    /\ written = <<>>
    /\ ~sigterm
    /\ runs # <<>> /\ Last(runs).why = "exhausted"
    /\ starving["in"]
    /\ queue["in"] = <<>>

\* C33: a read_int call fails (ResourceUnavailable) only when the queue is
\* empty at that moment, so a word a writer enqueued during the reader's
\* last permitted wait is returned and not left behind.
C33_FailsOnlyOnEmptyQueue ==
    [][(/\ QRead("c1")
        /\ call["c1"].op = "read_int"
        /\ tpc'["c1"] = "idle"
        /\ outcome'["c1"] = "exc")
          => queue["in"] = <<>>]_vars

(***************************************************************************)
(* Claims about the NAT's deliveries and the receiving machine             *)
(***************************************************************************)
\* Position in dlv[0] of the NAT's latest delivery to bridge 0, 0 if none.
LastNatDelivery ==
    LET ks == {k \in 1..Len(dlv[0]) : dlv[0][k][1] = NatAddr} IN
    IF ks = {} THEN 0 ELSE CHOOSE k \in ks : \A j \in ks : j <= k

\* Machine 0 has read both words of the NAT's latest delivery: the k-th
\* delivery is words 2k and 2k + 1 of everything appended to the FIFO.
NatDeliveryConsumed ==
    LastNatDelivery > 0 => Len(rlog[0]) >= 2 * LastNatDelivery + 1

\* C34: the NAT worker runs the repeat test of line 131 (and then returns
\* or delivers another packet) only when machine 0 has read both words of
\* the NAT's previous delivery.
C34_NatActsAfterConsumption ==
    [][(nat_pc = "act" /\ nat_pc' \in {"returned", "deliver"})
          => NatDeliveryConsumed]_vars

\* The machine at address a has read the x of a delivered packet and not
\* yet its y: after the address, the words read come in pairs.
ReadXOnly(a) == Len(rlog[a]) >= 2 /\ Len(rlog[a]) % 2 = 0

\* The delivery whose x machine a read last.
OpenPacket(a) == dlv[a][Len(rlog[a]) \div 2]

\* C35: once a machine has read the x of a packet, the packet's y is at
\* the head of its FIFO, no read has returned -1 since, and the machine's
\* next read returns that y, whoever else delivers to the bridge meanwhile.
C35_YWaits ==
    \A a \in Addrs :
        ReadXOnly(a) =>
            /\ Last(rlog[a]) = OpenPacket(a)[2]
            /\ last_read[a] = <<OpenPacket(a)[2]>>
            /\ bpc[a] # "starve"
            /\ in_queue[a] # <<>>
            /\ Head(in_queue[a]) = OpenPacket(a)[3]

C35_NextReadIsY ==
    \A a \in Addrs :
        (ReadXOnly(a) /\ BridgeRead(a)) =>
            /\ last_read'[a] = <<OpenPacket(a)[3]>>
            /\ rlog'[a] = Append(rlog[a], OpenPacket(a)[3])

C35_PacketWordsStayTogether == []C35_YWaits /\ [][C35_NextReadIsY]_vars

\* C35 witness: machine 1 and the NAT have both delivered to bridge 0, and
\* machine 0 has read the x of the first packet while the rest is queued.
C35_Witness ==
    /\ Len(dlv[0]) = 2
    /\ {dlv[0][1][1], dlv[0][2][1]} = {1, NatAddr}
    /\ dlv[0][1][2] # dlv[0][1][3]
    /\ Len(rlog[0]) = 2
    /\ Len(in_queue[0]) = 3

(***************************************************************************)
(* ================= PART VII: the painter robot (day 11) ===============  *)
(* deploy_robot starts the robot thread, runs the chip's Machine in the    *)
(* calling thread, then sets the robot's sigterm and joins.  The robot     *)
(* thread loops over chip.call: write_int(colour) on the chip's input      *)
(* port, read_ints(2) on its output port with the robot's sigterm as       *)
(* sentinel, then paint and move.  robot.pc is                             *)
(*   "off"    the thread has not been started                              *)
(*   "call"   at chip.call(self.observe_panel(), ...)                      *)
(*   "read"   at `with self.not_empty:` of read_ints                       *)
(*   "wait"   inside not_empty.wait(polling_interval)                      *)
(*   "paint"  read_ints returned, before paint_panel / turn_and_move       *)
(*   "done"   ResourceUnavailable was caught, the loop is left             *)
(*   "error"  turn_and_move raised ValueError, the thread is dead          *)
(***************************************************************************)

\* Chip programs: two rounds of (read the colour, emit colour and turn);
\* two pairs emitted without reading; two rounds that paint the colour
\* they were shown and turn right.
ChipImages ==
    {<<3, 100, 104, 1, 104, 0, 3, 100, 104, 0, 104, 1, 99>>,
     <<104, 1, 104, 0, 104, 0, 104, 1, 99>>,
     <<3, 100, 4, 100, 104, 1, 3, 100, 4, 100, 104, 1, 99>>}

\* PainterRobot(RobotChip(instructions), starting_panel): the chip's ports
\* are QueuePort() with the defaults, the canvas holds the starting panel.
PainterInit ==
    /\ ThreadsStart
    /\ PortsStart([p \in Ports |-> <<>>])
    /\ retries = [p \in Ports |-> <<>>]
    /\ live = {MachineThread}
    /\ image \in ChipImages
    /\ mach = NewMachine(image)
    /\ mst = "ready"
    /\ sigterm = FALSE
    /\ dpc = "open"
    /\ early_sig = FALSE
    /\ late_started = 0
    /\ woke_cancelled = FALSE
    /\ runs = <<>>
    /\ NetStart /\ wbudget = 0
    /\ FleetOff /\ RingOff /\ BridgesBuilt /\ MainOff
    /\ \E starting_panel \in {0, 1} :
        robot = [pc |-> "off", main |-> "start", sigterm |-> FALSE,
                 robot_pos |-> <<0, 0>>, robot_heading |-> <<0, 1>>,
                 canvas |-> (<<0, 0>> :> starting_panel),
                 reply |-> <<>>, taken |-> <<>>, handled |-> <<>>, late |-> 0]

\* What the robot's steps leave alone.
RobotFrame ==
    UNCHANGED <<retries, initial_values, mutex, thrvars, nextword, written,
                consumed, batches, returns, machvars, netvars, fleetvars,
                ampvars, seedvars, cleanvars>>

\* deploy_robot: thread.start()
DeployStart ==
    /\ robot.main = "start"
    /\ robot' = [robot EXCEPT !.main = "run", !.pc = "call"]
    /\ UNCHANGED <<queue, starving, qhist, pophist>>
    /\ RobotFrame

\* deploy_robot: run_until_terminate has returned; self.sigterm.set()
DeployStop ==
    /\ robot.main = "run"
    /\ mst = "returned"
    /\ robot' = [robot EXCEPT !.main = "joining", !.sigterm = TRUE]
    /\ UNCHANGED <<queue, starving, qhist, pophist>>
    /\ RobotFrame

\* deploy_robot: thread.join()
DeployJoin ==
    /\ robot.main = "joining"
    /\ robot.pc \in {"done", "error"}
    /\ robot' = [robot EXCEPT !.main = "joined"]
    /\ UNCHANGED <<queue, starving, qhist, pophist>>
    /\ RobotFrame

\* observe_panel: self.canvas.get(self.robot_pos, 0)
observe_panel(r) ==
    IF r.robot_pos \in DOMAIN r.canvas THEN r.canvas[r.robot_pos] ELSE 0

\* RobotChip.call, line 129: input_port.write_int(colour).  The append,
\* the clear and the notify run under the port's mutex, one step.
RobotCall ==
    /\ robot.pc = "call"
    /\ MutexFree("in")
    /\ queue' = [queue EXCEPT !["in"] = Enqueue(@, <<observe_panel(robot)>>)]
    /\ qhist' = [qhist EXCEPT !["in"] = Enqueue(@, <<observe_panel(robot)>>)]
    /\ starving' = [starving EXCEPT !["in"] = FALSE]
    /\ robot' = [robot EXCEPT !.pc = "read"]
    /\ UNCHANGED pophist
    /\ RobotFrame

\* Mutant of RobotRead: the sentinel is tested first, the queue after it.
RobotRead_SentinelFirst ==
    /\ robot.pc \in {"read", "wait"}
    /\ MutexFree("out")
    /\ IF robot.sigterm
       THEN /\ starving' = [starving EXCEPT !["out"] = TRUE]
            /\ robot' = [robot EXCEPT !.pc = "done"]
            /\ UNCHANGED <<queue, pophist>>
       ELSE IF QueueReady(queue["out"], 2)
       THEN /\ queue' = [queue EXCEPT !["out"] = SubSeq(@, 3, Len(@))]
            /\ pophist' = [pophist EXCEPT !["out"] =
                              @ \o << <<"robot", queue["out"][1]>>,
                                      <<"robot", queue["out"][2]>> >>]
            /\ robot' = [robot EXCEPT
                            !.pc = "paint",
                            !.reply = SubSeq(queue["out"], 1, 2),
                            !.taken = Append(@, SubSeq(queue["out"], 1, 2))]
            /\ UNCHANGED starving
       ELSE /\ starving' = [starving EXCEPT !["out"] = TRUE]
            /\ robot' = [robot EXCEPT !.pc = "wait"]
            /\ UNCHANGED <<queue, pophist>>
    /\ UNCHANGED qhist
    /\ RobotFrame

\* RobotChip.call, line 130: output_port.read_ints(n=2, sentinel), one pass
\* of the loop of read_ints under the mutex, entered at the with-statement
\* or on return from not_empty.wait (notified or timed out): two words are
\* popped when the queue has them; otherwise starving is set and the
\* robot's sigterm decides between ResourceUnavailable, which
\* observe_paint_move_loop catches to break, and another wait.  The ports
\* have retries = None.
RobotRead ==
    /\ robot.pc \in {"read", "wait"}
    /\ MutexFree("out")
    /\ IF QueueReady(queue["out"], 2)
       THEN /\ queue' = [queue EXCEPT !["out"] = SubSeq(@, 3, Len(@))]
            /\ pophist' = [pophist EXCEPT !["out"] =
                              @ \o << <<"robot", queue["out"][1]>>,
                                      <<"robot", queue["out"][2]>> >>]
            /\ robot' = [robot EXCEPT
                            !.pc = "paint",
                            !.reply = SubSeq(queue["out"], 1, 2),
                            !.taken = Append(@, SubSeq(queue["out"], 1, 2)),
                            !.late = IF robot.sigterm THEN @ + 1 ELSE @]
            /\ UNCHANGED starving
       ELSE /\ starving' = [starving EXCEPT !["out"] = TRUE]
            /\ robot' = [robot EXCEPT !.pc = IF robot.sigterm THEN "done" ELSE "wait"]
            /\ UNCHANGED <<queue, pophist>>
    /\ UNCHANGED qhist
    /\ RobotFrame

\* Vec.turn('left') is 90 degrees, Vec.turn('right') 270.
Turned(heading, turn_direction) ==
    IF turn_direction = 0
    THEN <<-heading[2], heading[1]>>
    ELSE <<heading[2], -heading[1]>>

\* paint_panel(new_color); turn_and_move(turn_direction), which raises
\* ValueError for a direction other than 0 and 1.
RobotPaintMove ==
    /\ robot.pc = "paint"
    /\ LET new_color == robot.reply[1]
           turn_direction == robot.reply[2]
           painted == [q \in DOMAIN robot.canvas \cup {robot.robot_pos} |->
                          IF q = robot.robot_pos THEN new_color ELSE robot.canvas[q]]
           heading == Turned(robot.robot_heading, turn_direction)
       IN
       IF turn_direction \in {0, 1}
       THEN robot' = [robot EXCEPT
                        !.canvas = painted,
                        !.robot_heading = heading,
                        !.robot_pos = <<robot.robot_pos[1] + heading[1],
                                        robot.robot_pos[2] + heading[2]>>,
                        !.handled = Append(@, robot.reply),
                        !.reply = <<>>,
                        !.pc = "call"]
       ELSE robot' = [robot EXCEPT !.canvas = painted, !.pc = "error"]
    /\ UNCHANGED <<queue, starving, qhist, pophist>>
    /\ RobotFrame

PainterNext ==
    \/ DeployStart
    \/ DeployStop
    \/ DeployJoin
    \/ RobotCall
    \/ RobotRead
    \/ RobotPaintMove
    \/ robot.main = "run" /\ MStart
    \/ MLoopTest
    \/ MExec
    \/ QRead(MachineThread)
    \/ QAppend(MachineThread)
    \/ QClear(MachineThread)

\* Both threads keep running: a wait on a port ends at the latest after
\* polling_interval.
SpecPainter ==
    /\ PainterInit /\ [][PainterNext]_vars
    /\ WF_vars(RobotCall \/ RobotRead \/ RobotPaintMove)
    /\ WF_vars((robot.main = "run" /\ MStart) \/ MachineStep)
    /\ WF_vars(DeployStart \/ DeployStop \/ DeployJoin)

\* The (colour, turn) pairs among the words s, in order.
Pairs(s) == [i \in 1..(Len(s) \div 2) |-> <<s[2 * i - 1], s[2 * i]>>]

\* C36: the pairs the robot has read are, in order, the first pairs the
\* chip wrote, each read once; every pair read has been painted and moved
\* on before the next is read; paint and move act on the pair read; when
\* observe_paint_move_loop has exited, every pair the chip emitted has
\* been handled, also those read after sigterm was set; and once the chip
\* has halted the robot thread ends and the join returns.
C36_InOrderOnce ==
    /\ IsPrefix(robot.taken, Pairs(qhist["out"]))
    /\ IsPrefix(robot.handled, robot.taken)
    /\ Len(robot.taken) - Len(robot.handled) = (IF robot.pc = "paint" THEN 1 ELSE 0)
    /\ robot.pc = "paint" => robot.reply = Last(robot.taken)
    /\ robot.pc # "error"

C36_AllHandledAtExit ==
    robot.pc = "done" =>
        /\ mst = "returned"
        /\ qhist["out"] = mach.output_tape
        /\ robot.handled = Pairs(mach.output_tape)
        /\ Len(queue["out"]) < 2

C36_PaintMoveStep ==
    (robot.pc = "paint" /\ robot'.pc # "paint") =>
        /\ robot'.canvas[robot.robot_pos] = robot.reply[1]
        /\ robot'.robot_heading = Turned(robot.robot_heading, robot.reply[2])
        /\ robot'.robot_pos = <<robot.robot_pos[1] + robot'.robot_heading[1],
                                robot.robot_pos[2] + robot'.robot_heading[2]>>
        /\ robot'.handled = Append(robot.handled, robot.reply)

C36_EveryPairHandled ==
    /\ [](C36_InOrderOnce /\ C36_AllHandledAtExit)
    /\ [][C36_PaintMoveStep]_vars
    /\ (mst = "returned") ~> (robot.pc = "done" /\ robot.main = "joined")

\* C36 witness: the chip emitted two pairs and halted, sigterm was set
\* before the robot had read the last pair, and the robot has handled
\* both and left its loop.
C36_Witness ==
    /\ robot.pc = "done"
    /\ robot.late >= 1
    /\ Len(robot.handled) = 2
    /\ robot.handled = Pairs(mach.output_tape)

(***************************************************************************)
(* Claims about the starving flag of a QueuePort                           *)
(* The machine's input port is read with read_int by the machine and       *)
(* written with write_int and write_ints by the driver, as in the day-25   *)
(* Solver, whose auto_run writes its commands and then calls               *)
(* input_port.starving.wait().                                             *)
(***************************************************************************)

\* The driver has written, is outside any port call, and finds the flag
\* set: its starving.wait() returns in this state.
DriverSeesStarving ==
    /\ written # <<>>
    /\ tpc["p1"] = "idle"
    /\ starving["in"]

\* C37: whenever nobody holds the mutex of the input port, a set starving
\* flag means an empty queue; and when the driver, having written, finds
\* the flag set, the reader has taken every word that was ever in the
\* queue, the driver's among them, in order.
C37_StarvingMeansEmpty ==
    /\ (MutexFree("in") /\ starving["in"]) => queue["in"] = <<>>
    /\ DriverSeesStarving =>
          /\ queue["in"] = <<>>
          /\ qhist["in"] = initial_values["in"] \o written
          /\ Len(pophist["in"]) = Len(qhist["in"])
          /\ \A i \in 1..Len(qhist["in"]) :
                pophist["in"][i] = <<MachineThread, qhist["in"][i]>>

\* C37 witness: the driver wrote all its words, with write_int and with
\* write_ints, the looping machine read them all and its next read found
\* the queue empty.
C37_Witness ==
    /\ DriverSeesStarving
    /\ Len(written) = MaxWords
    /\ batches # {}
    /\ mach.input_tape = initial_values["in"] \o written
    /\ tpc[MachineThread] = "wait"

\* C38: when opcode 3 fails because its destination cannot be stored to
\* (immediate or unknown mode), the failing instruction has taken no word
\* from the input port: the queue, input_tape, memory and pc are as before.
C38_FailedInputConsumesNothing ==
    [][(InsideRead /\ ~CanStore(Param(mach, 0)) /\ mst' = "crashed")
          => (/\ queue' = queue
              /\ pophist' = pophist
              /\ mach' = mach)]_vars

(***************************************************************************)
(* ================ PART VIII: main() of day 23 =========================  *)
(* Lines 38-57: the machine threads are started, main waits for            *)
(* nat_first_received and reads nat_received_msgs[0], runs the NAT worker  *)
(* itself, and then, for every machine in turn, sets its sigterm and joins *)
(* its thread.  Each machine thread runs run_until_terminate on its        *)
(* BridgeAdapter; environ[a].mst is "test" (at the loop test), "exec"      *)
(* (inside execute_next), "returned" or "crashed".  main.pc is "wait"      *)
(* (line 43), "nat" (line 49), "set" (line 56), "join" (line 57), "done",  *)
(* or "error".                                                             *)
(***************************************************************************)

\* The state after line 40.
CleanInit ==
    /\ NetStart /\ wbudget = MaxWritesFair
    /\ QueueOff /\ MachineOff /\ FleetOff /\ RingOff /\ BridgesBuilt /\ RobotOff
    /\ environ = [a \in Addrs |-> [mst |-> "test", sigterm |-> FALSE, late |-> 0]]
    /\ main = [pc |-> "wait", k |-> 1, p1_answer |-> <<>>]

CleanFrame ==
    UNCHANGED <<queuevars, machvars, fleetvars, ampvars, seedvars, robotvars>>

\* Machine.run_until_terminate, `while not self.sigterm.is_set():`
MachTest(a) ==
    /\ environ[a].mst = "test"
    /\ environ' = [environ EXCEPT
                     ![a].mst = IF LoopExits(environ[a].sigterm)
                                THEN "returned" ELSE "exec"]
    /\ UNCHANGED <<main, netvars>>
    /\ CleanFrame

\* self.execute_next(): an instruction without a port call, or opcode 3 /
\* opcode 4 on the machine's BridgeAdapter, step by step.  When the bridge
\* call has returned the instruction is over; a KeyError in
\* deliver_to_machine leaves run_until_terminate.
MachExec(a) ==
    /\ environ[a].mst = "exec"
    /\ \/ bpc[a] = "idle" /\ UNCHANGED netvars
       \/ BridgeRead(a)
       \/ BridgeStarve(a)
       \/ BridgeWrite(a)
       \/ BridgeClear(a)
       \/ BridgeSignal(a)
    /\ environ' = [environ EXCEPT
                     ![a].mst = IF bpc'[a] = "idle" THEN "test"
                                ELSE IF bpc'[a] = "error" THEN "crashed"
                                ELSE "exec",
                     ![a].late = IF bpc[a] = "idle" /\ environ[a].sigterm
                                 THEN @ + 1 ELSE @]
    /\ UNCHANGED main
    /\ CleanFrame

\* Lines 43-44: nat_first_received.wait() returns once the event is set;
\* p1_answer = nat_received_msgs[0].y (IndexError on an empty deque).
MainWake ==
    /\ main.pc = "wait"
    /\ nat_first_received
    /\ main' = IF nat_received_msgs = <<>>
               THEN [main EXCEPT !.pc = "error"]
               ELSE [main EXCEPT !.pc = "nat", !.p1_answer = <<nat_received_msgs[1][2]>>]
    /\ UNCHANGED <<environ, netvars>>
    /\ CleanFrame

\* Line 49: main runs nat_run_until_send_repeated.
MainNat ==
    /\ main.pc = "nat"
    /\ NatStep
    /\ main' = IF nat_pc' = "returned" THEN [main EXCEPT !.pc = "set", !.k = 1]
               ELSE IF nat_pc' = "error" THEN [main EXCEPT !.pc = "error"]
               ELSE main
    /\ UNCHANGED environ
    /\ CleanFrame

\* Line 56: environ.machine.sigterm.set() for the k-th machine.
CleanSet ==
    /\ main.pc = "set"
    /\ environ' = [environ EXCEPT ![BridgeOrder[main.k]].sigterm = TRUE]
    /\ main' = [main EXCEPT !.pc = "join"]
    /\ UNCHANGED netvars
    /\ CleanFrame

\* Line 57: environ.thread.join() returns when the k-th thread has ended.
CleanJoin ==
    /\ main.pc = "join"
    /\ environ[BridgeOrder[main.k]].mst \in {"returned", "crashed"}
    /\ main' = IF main.k < Len(BridgeOrder)
               THEN [main EXCEPT !.pc = "set", !.k = @ + 1]
               ELSE [main EXCEPT !.pc = "done"]
    /\ UNCHANGED <<environ, netvars>>
    /\ CleanFrame

CleanNext ==
    \/ \E a \in Addrs : MachTest(a)
    \/ \E a \in Addrs : MachExec(a)
    \/ MainWake
    \/ MainNat
    \/ CleanSet
    \/ CleanJoin

\* Every machine thread and the main thread keep running; time.sleep and
\* the mutex of deliver_to_machine give way after a finite time.
SpecClean ==
    /\ CleanInit /\ [][CleanNext]_vars
    /\ \A a \in Addrs : WF_vars(MachTest(a) \/ MachExec(a))
    /\ WF_vars(MainWake \/ MainNat \/ CleanSet \/ CleanJoin)

\* C39: once a machine's sigterm is set its loop test ends the call, so at
\* most one instruction (the one whose loop test had passed) begins after
\* that; an instruction on the bridge always comes to its end, a read on an
\* empty FIFO without help from anyone; hence the clean-up loop, once
\* begun, sets every sigterm, joins every thread and ends.
C39_TestStep ==
    \A a \in Addrs :
        (environ[a].mst = "test" /\ environ[a].sigterm /\ environ'[a] # environ[a]) =>
            environ'[a].mst = "returned"

C39_AtMostOneMore ==
    \A a \in Addrs :
        /\ environ[a].late <= 1
        /\ (environ[a].mst = "exec" /\ bpc[a] = "starve") =>
              ENABLED (MachExec(a) /\ bpc'[a] = "idle")

C39_CleanupEnds ==
    /\ [][C39_TestStep]_vars
    /\ []C39_AtMostOneMore
    /\ (main.pc = "set") ~> (main.pc = "done")
    /\ \A a \in Addrs : environ[a].sigterm ~> (environ[a].mst \in {"returned", "crashed"})

\* C39 witness: the clean-up loop has ended; machine 1 was inside a read on
\* its empty FIFO when its sigterm was set earlier than its loop test
\* could see it, so one more instruction began after the set.
C39_Witness ==
    /\ main.pc = "done"
    /\ environ[1].late = 1
    /\ environ[0].mst = "returned"
    /\ environ[1].mst = "returned"
    /\ last_read[1] = <<-1>>

(***************************************************************************)
(* Claims about the NAT's inbox and the nat_first_received event           *)
(***************************************************************************)
\* C40: whenever nat_first_received is set the NAT inbox is non-empty and
\* its first entry is the (x, y) of the first message that was dispatched
\* to the NAT; the event stays set and the first entry never changes, so
\* nat_received_msgs[0] read after the wait is that packet.
C40_SetMeansFirstPacket ==
    nat_first_received =>
        /\ nat_received_msgs # <<>>
        /\ SentTo(NatAddr) # <<>>
        /\ nat_received_msgs[1] = <<SentTo(NatAddr)[1][3], SentTo(NatAddr)[1][4]>>

C40_Stable ==
    /\ nat_first_received => nat_first_received'
    /\ nat_received_msgs # <<>> =>
          /\ nat_received_msgs' # <<>>
          /\ nat_received_msgs'[1] = nat_received_msgs[1]

C40_FirstReceivedIsReadable == []C40_SetMeansFirstPacket /\ [][C40_Stable]_vars

\* C40 witness: both machines have sent the NAT a packet, with different
\* contents, the event is set, and the second sender is still between its
\* append and its set.
C40_Witness ==
    /\ nat_first_received
    /\ Len(nat_received_msgs) = 2
    /\ nat_received_msgs[1] # nat_received_msgs[2]
    /\ \E a \in Addrs : bpc[a] = "signal"

====
